---- MODULE Spec2Model ----
(***************************************************************************)
(* Purchase Receipt (erpnext/stock/doctype/purchase_receipt).              *)
(*                                                                         *)
(* A model of the document's lifecycle hooks (validate, on_submit,         *)
(* on_cancel), of the general-ledger entries it builds, of the billing     *)
(* status it maintains and of the mapping to a Purchase Invoice.           *)
(*                                                                         *)
(* Conventions.  None, the empty string and False of the Python source are *)
(* the empty string "" (links, names) or 0 (numbers, check boxes).         *)
(* Currency amounts are integers: whole multiples of the smallest unit of  *)
(* the currency field's precision.  Quotients are kept exact as fractions  *)
(* [n, d].  Each hook is one action: it runs the whole handler, and the    *)
(* calls into code outside this file are recorded, in order, in calls.     *)
(***************************************************************************)
EXTENDS Integers, Sequences, FiniteSets, TLC

VARIABLES
    phase,        \* which operation ran last on the receipt
    doc,          \* the receipt's parent fields
    items,        \* the receipt's item rows (Purchase Receipt Item)
    taxes,        \* the receipt's tax rows (Purchase Taxes and Charges)
    settings,     \* Buying Settings and Company defaults
    qi,           \* Quality Inspection, by name
    receipts,     \* the other Purchase Receipts' parent fields, by name
    others,       \* the other Purchase Receipts' item rows
    pinv,         \* Purchase Invoice Item rows, with their parent's fields
    sle,          \* Stock Ledger Entry values of this receipt, by item row
    assets,       \* Asset
    lcv,          \* Landed Cost Voucher
    gl_entries,   \* the entries the last get_gl_entries built
    target,       \* the Purchase Invoice the last make_purchase_invoice mapped
    returned,     \* what the last call of a function of the module returned
    err,          \* the error the last operation threw, NoErr if none
    calls         \* the calls the last hook made, in order

vars == <<phase, doc, items, taxes, settings, qi, receipts, others, pinv, sle,
          assets, lcv, gl_entries, target, returned, err, calls>>

dbVars == <<settings, qi, receipts, others, pinv, sle, assets, lcv>>

----------------------------------------------------------------------------
(* Bounds *)

\* item rows of a receipt in the validation scenarios
MaxItems == 2

----------------------------------------------------------------------------
(* Generic helpers *)

SeqsUpTo(S, n) == UNION {[1..k -> S] : k \in 0..n}

NonEmptySeqsUpTo(S, n) == UNION {[1..k -> S] : k \in 1..n}

Min(a, b) == IF a <= b THEN a ELSE b

Max(a, b) == IF a >= b THEN a ELSE b

Abs(a) == IF a < 0 THEN -a ELSE a

\* the least index of a set of indices, or 0: where a loop first stops
FirstIndex(S) ==
    IF S = {} THEN 0 ELSE CHOOSE i \in S : \A j \in S : i <= j

NoErr == [msg |-> "", arg |-> ""]

Err(m, a) == [msg |-> m, arg |-> a]

\* a call a hook makes, with the document it is made for when that matters
Call(fn) == [fn |-> fn, arg |-> ""]

CallFor(fn, a) == [fn |-> fn, arg |-> a]

\* the calls of a sequence of function names
Calls(fns) == [i \in DOMAIN fns |-> Call(fns[i])]

\* the first error of a sequence of check results: a throw ends the handler
FirstErr(es) ==
    LET i == FirstIndex({k \in DOMAIN es : es[k] # NoErr})
    IN  IF i = 0 THEN NoErr ELSE es[i]

----------------------------------------------------------------------------
(* Documents *)

ThisReceipt == "PR-1"

OtherReceipt == "PR-2"

\* Item master: the codes get_stock_items() returns; the service item and the
\* fixed asset are not stock items
stock_items == {"ITEM-A", "ITEM-B"}

ItemRow ==
    [ name |-> "", parent |-> ThisReceipt, item_code |-> "ITEM-A",
      purchase_order |-> "", purchase_order_item |-> "",
      purchase_invoice |-> "", purchase_invoice_item |-> "",
      quality_inspection |-> "",
      qty |-> 1, received_qty |-> 1, rate |-> 0, net_rate |-> 0,
      amount |-> 0, net_amount |-> 0, base_net_amount |-> 0, billed_amt |-> 0,
      valuation_rate |-> 0, landed_cost_voucher_amount |-> 0,
      rm_supp_cost |-> 0, item_tax_amount |-> 0,
      rate_difference_with_purchase_invoice |-> 0,
      warehouse |-> "Stores", from_warehouse |-> "", cost_center |-> "Main - C",
      is_fixed_asset |-> 0, asset_category |-> "",
      expense_account |-> "Expenses - C", provisional_expense_account |-> "" ]

TaxRow ==
    [ name |-> "", category |-> "Total", add_deduct_tax |-> "Add",
      base_tax_amount_after_discount_amount |-> 0,
      cost_center |-> "Main - C", account_head |-> "Freight - C" ]

ReceiptDoc ==
    [ name |-> ThisReceipt, doctype |-> "Purchase Receipt", docstatus |-> 0,
      is_return |-> 0, per_billed |-> [n |-> 0, d |-> 1], status |-> "Draft",
      posting_in_future |-> FALSE, posting |-> 2,
      supplier_warehouse |-> "", conversion_rate |-> 1,
      is_internal_transfer |-> FALSE ]

\* Buying Settings, the Company's defaults, and what the account, warehouse
\* and asset category masters say
Settings ==
    [ po_required |-> "No",
      bill_for_rejected_quantity_in_purchase_invoice |-> 0,
      enable_provisional_accounting_for_non_stock_items |-> 0,
      default_provisional_account |-> "Provisional - C",
      company_currency |-> "INR",
      foreign_accounts |-> {},
      warehouse_account |->
          [w \in {"Stores", "Yard", "Transit", "Supplier WH"} |->
              CASE w = "Stores" -> "Stock In Hand - C"
                [] w = "Transit" -> "Stock In Transit - C"
                [] OTHER -> ""],
      stock_received_but_not_billed |-> "SRBNB - C",
      expenses_included_in_valuation |-> "EIV - C",
      default_expense_account |-> "COGS - C",
      exchange_gain_loss_account |-> "Exchange Gain/Loss - C",
      cost_center |-> "Main - C",
      asset_received_but_not_billed |-> "ARBNB - C",
      expenses_included_in_asset_valuation |-> "EIAV - C",
      capital_work_in_progress_account |-> "CWIP - C",
      cwip_categories |-> {"Machinery"},
      category_cwip_account |->
          [c \in {"Machinery", "Furniture"} |->
              IF c = "Machinery" THEN "CWIP Machinery - C" ELSE ""],
      fixed_asset_account |->
          [c \in {"Machinery", "Furniture"} |-> "Fixed Assets - C"] ]

\* empty tables
NoReceipts == [r \in {} |-> 0]

NoSle == [r \in {} |-> 0]

NoTarget == [mapped |-> FALSE, items |-> <<>>]

----------------------------------------------------------------------------
(* validate *)

MsgPoRequired == "Purchase Order number required for Item {0}"

MsgQiReference == "Row #{0}: Please select a valid Quality Inspection with Reference Type {1} and Reference Name {2}."

MsgQiItemCode == "Row #{0}: Please select a valid Quality Inspection with Item Code {1}."

MsgFutureDate == "Posting Date cannot be future date"

po_required_any(its, setting) ==
    LET i == FirstIndex({k \in DOMAIN its : its[k].purchase_order = ""})
    IN  IF setting # "No" /\ i # 0
        THEN Err(MsgPoRequired, its[i].item_code)
        ELSE NoErr

po_required(its, setting) ==
    LET i == FirstIndex({k \in DOMAIN its : its[k].purchase_order = ""})
    IN  IF setting = "Yes" /\ i # 0
        THEN Err(MsgPoRequired, its[i].item_code)
        ELSE NoErr

\* what one row's check throws
qi_row_error(item, idx, d, inspections) ==
    IF item.quality_inspection = "" THEN NoErr
    ELSE LET q == inspections[item.quality_inspection]
         IN  IF q.reference_type # d.doctype \/ q.reference_name # d.name
             THEN Err(MsgQiReference, idx)
             ELSE IF q.item_code # item.item_code
                  THEN Err(MsgQiItemCode, idx)
                  ELSE NoErr

validate_items_quality_inspection_no_item(its, d, inspections) ==
    FirstErr([i \in DOMAIN its |->
        IF its[i].quality_inspection = "" THEN NoErr
        ELSE LET q == inspections[its[i].quality_inspection]
             IN  IF q.reference_type # d.doctype \/ q.reference_name # d.name
                 THEN Err(MsgQiReference, i)
                 ELSE NoErr])

validate_items_quality_inspection(its, d, inspections) ==
    FirstErr([i \in DOMAIN its |-> qi_row_error(its[i], i, d, inspections)])

validate_provisional_expense_account_overwriting(its, s) ==
    IF s.enable_provisional_accounting_for_non_stock_items = 0 THEN its
    ELSE [i \in DOMAIN its |->
            [its[i] EXCEPT !.provisional_expense_account =
                               s.default_provisional_account]]

validate_provisional_expense_account(its, s) ==
    IF s.enable_provisional_accounting_for_non_stock_items = 0 THEN its
    ELSE [i \in DOMAIN its |->
            IF its[i].provisional_expense_account = ""
            THEN [its[i] EXCEPT !.provisional_expense_account =
                                    s.default_provisional_account]
            ELSE its[i]]

posting_date_check(d) ==
    IF d.posting_in_future THEN Err(MsgFutureDate, "") ELSE NoErr

\* PurchaseReceipt.validate: the checks of this file, in the order they run.
\* A check that throws ends the handler: nothing after it runs.
validate ==
    /\ doc.docstatus = 0 /\ phase = "draft"
    /\ LET e1 == po_required(items, settings.po_required)
           e2 == validate_items_quality_inspection(items, doc, qi)
           e4 == posting_date_check(doc)
           e  == FirstErr(<<e1, e2, e4>>)
       IN  /\ err' = e
           /\ items' = IF e1 = NoErr /\ e2 = NoErr
                       THEN validate_provisional_expense_account(items, settings)
                       ELSE items
           /\ phase' = IF e = NoErr THEN "validated" ELSE "rejected"
           /\ calls' = Calls(
                       <<"validate_posting_time", "super.validate", "po_required">>
                       \o (IF e1 # NoErr THEN <<>> ELSE
                           <<"validate_items_quality_inspection">>
                           \o (IF e2 # NoErr THEN <<>> ELSE
                               <<"validate_with_previous_doc",
                                 "validate_uom_is_integer",
                                 "validate_cwip_accounts",
                                 "validate_provisional_expense_account",
                                 "check_on_hold_or_closed_status">>)))
    /\ UNCHANGED <<doc, taxes, dbVars, gl_entries, target, returned>>

\* the user edits a rejected draft: here, gives up on the future posting date
amend_posting_date ==
    /\ phase = "rejected"
    /\ doc.posting_in_future
    /\ doc' = [doc EXCEPT !.posting_in_future = FALSE]
    /\ phase' = "draft"
    /\ err' = NoErr
    /\ calls' = <<>>
    /\ UNCHANGED <<items, taxes, dbVars, gl_entries, target, returned>>

----------------------------------------------------------------------------
(* The validation scenarios: every receipt of up to MaxItems rows over two *)
(* item codes, with or without a purchase order and a quality inspection,  *)
(* every value of the po_required setting and every inspection record.     *)

ItemCodes == {"ITEM-A", "ITEM-B"}

ValidateRows ==
    { [ItemRow EXCEPT !.item_code = c, !.purchase_order = po,
                      !.quality_inspection = q]
        : c \in ItemCodes, po \in {"", "PO-1"}, q \in {"", "QI-1"} }

Inspections ==
    [ {"QI-1"} ->
        [ reference_type : {"Purchase Receipt", "Purchase Invoice"},
          reference_name : {ThisReceipt, OtherReceipt},
          item_code : ItemCodes ] ]

InitValidate ==
    /\ phase = "draft"
    /\ doc \in {[ReceiptDoc EXCEPT !.posting_in_future = f] : f \in BOOLEAN}
    /\ items \in NonEmptySeqsUpTo(ValidateRows, MaxItems)
    /\ taxes = <<>>
    /\ settings \in {[Settings EXCEPT !.po_required = p] : p \in {"Yes", "No", ""}}
    /\ qi \in Inspections
    /\ receipts = NoReceipts /\ others = <<>> /\ pinv = <<>>
    /\ sle = NoSle /\ assets = <<>> /\ lcv = <<>>
    /\ gl_entries = <<>> /\ target = NoTarget /\ returned = <<>>
    /\ err = NoErr
    /\ calls = <<>>

NextValidate == validate \/ amend_posting_date

SpecValidate == InitValidate /\ [][NextValidate]_vars

----------------------------------------------------------------------------
(* Claims about validate *)

Validated == phase \in {"validated", "rejected"}

RowsWithoutOrder == {i \in DOMAIN items : items[i].purchase_order = ""}

\* C2: with Buying Settings po_required = 'Yes', validate rejects a receipt
\* that has a row without a purchase order, with the error naming the item of
\* the first such row; with any other value of the setting, and when every
\* row has a purchase order, po_required throws nothing.
C2_PoRequired ==
    Validated =>
        IF settings.po_required = "Yes" /\ RowsWithoutOrder # {}
        THEN /\ phase = "rejected"
             /\ err.msg = MsgPoRequired
             /\ \E i \in RowsWithoutOrder :
                    /\ err.arg = items[i].item_code
                    /\ \A j \in RowsWithoutOrder : i <= j
        ELSE err.msg # MsgPoRequired

\* a rejection that names the second row's item: the first row has an order
C2_Witness ==
    /\ phase = "rejected" /\ err.msg = MsgPoRequired
    /\ Len(items) = 2 /\ items[1].purchase_order # ""
    /\ items[1].item_code # items[2].item_code
    /\ err.arg = items[2].item_code

\* the rows whose quality inspection does not match the receipt and the row
MismatchedInspections ==
    {i \in DOMAIN items :
        /\ items[i].quality_inspection # ""
        /\ \/ qi[items[i].quality_inspection].reference_type # "Purchase Receipt"
           \/ qi[items[i].quality_inspection].reference_name # doc.name
           \/ qi[items[i].quality_inspection].item_code # items[i].item_code}

\* C3: once po_required has passed, validate throws a quality inspection
\* error exactly when some row carrying a quality inspection points to an
\* inspection whose reference type or name is not this receipt or whose item
\* code is not the row's; rows without a quality inspection are not checked.
C3_QualityInspection ==
    (Validated /\ err.msg # MsgPoRequired) =>
        /\ (err.msg \in {MsgQiReference, MsgQiItemCode})
              <=> (MismatchedInspections # {})
        /\ (err.msg \in {MsgQiReference, MsgQiItemCode})
              => /\ phase = "rejected"
                 /\ err.arg \in MismatchedInspections
                 /\ \A j \in MismatchedInspections : err.arg <= j

\* a rejection for the item code alone, on the second row, the first row
\* carrying no inspection although the inspection does not fit it either
C3_Witness ==
    /\ phase = "rejected" /\ err = Err(MsgQiItemCode, 2)
    /\ Len(items) = 2 /\ items[1].quality_inspection = ""
    /\ qi["QI-1"].item_code # items[1].item_code
    /\ qi["QI-1"].reference_name = doc.name

----------------------------------------------------------------------------
(* Exact arithmetic: a quotient is a fraction in lowest terms *)

RECURSIVE GCD(_, _)
GCD(a, b) == IF b = 0 THEN a ELSE GCD(b, a % b)

Frac(n, d) ==
    LET g == GCD(Abs(n), Abs(d))
        sg == IF d < 0 THEN -1 ELSE 1
    IN  [n |-> (sg * n) \div g, d |-> (sg * d) \div g]

FInt(n) == [n |-> n, d |-> 1]

FAdd(a, b) == Frac(a.n * b.d + b.n * a.d, a.d * b.d)

FNeg(a) == [n |-> -a.n, d |-> a.d]

FSub(a, b) == FAdd(a, FNeg(b))

FMul(a, b) == Frac(a.n * b.n, a.d * b.d)

\* a / b, b nonzero
FDiv(a, b) == Frac(a.n * b.d, a.d * b.n)

FLess(a, b) == a.n * b.d < b.n * a.d

RECURSIVE FSum(_)
FSum(fs) == IF fs = <<>> THEN FInt(0) ELSE FAdd(Head(fs), FSum(Tail(fs)))

RECURSIVE Sum(_)
Sum(ns) == IF ns = <<>> THEN 0 ELSE Head(ns) + Sum(Tail(ns))

RECURSIVE Concat(_)
Concat(ss) == IF ss = <<>> THEN <<>> ELSE Head(ss) \o Concat(Tail(ss))

RECURSIVE SelectSeq2(_, _)
\* the subsequence of s at the indices of the set keep
SelectSeq2(s, keep) ==
    IF s = <<>> THEN <<>>
    ELSE SelectSeq2(SubSeq(s, 1, Len(s) - 1), keep)
         \o (IF Len(s) \in keep THEN <<s[Len(s)]>> ELSE <<>>)

----------------------------------------------------------------------------
(* General-ledger entries *)

\* StockController.add_gl_entry appends one entry per call, whatever the
\* amounts.  Of an entry, the account, the cost center, the amounts in the
\* company's currency and the row it is for are kept.
add_gl_entry(account, cost_center, debit, credit, detail) ==
    << [ account |-> account, cost_center |-> cost_center,
         debit |-> debit, credit |-> credit, voucher_detail_no |-> detail ] >>

get_account_currency(account, s) ==
    IF account \in s.foreign_accounts THEN "USD" ELSE s.company_currency

\* get_purchase_document_details: the conversion rate of a purchase invoice
\* and the net rate of a purchase invoice item (0 when there is none)
exchange_rate_map(pv, pi) ==
    LET k == FirstIndex({i \in DOMAIN pv : pv[i].parent = pi})
    IN  IF k = 0 THEN 0 ELSE pv[k].conversion_rate

net_rate_map(pv, pii) ==
    LET k == FirstIndex({i \in DOMAIN pv : pv[i].name = pii})
    IN  IF k = 0 THEN 0 ELSE pv[k].net_rate

\* get_item_account_wise_additional_cost ---------------------------------

based_on_field_amount_only(v, item) == item.amount

based_on_field(v, item) ==
    IF v.distribute_charges_based_on = "Distribute Manually" THEN item.amount
    ELSE IF v.distribute_charges_based_on = "Qty" THEN item.qty
    ELSE item.amount

total_item_cost(v) ==
    Sum([i \in DOMAIN v.items |-> based_on_field(v, v.items[i])])

\* the submitted vouchers that list the receipt
landed_cost_vouchers(vs, purchase_document) ==
    {k \in DOMAIN vs :
        vs[k].docstatus = 1 /\ purchase_document \in vs[k].receipt_documents}

\* what one voucher item adds under one of the voucher's charges
lcv_share(v, item, tax, field) ==
    IF total_item_cost(v) > 0
    THEN Frac(tax[field] * based_on_field(v, item), total_item_cost(v))
    ELSE FInt(item.applicable_charges)

\* the (voucher, item, charge) triples the loops visit for a receipt
lcv_visits(vs, purchase_document) ==
    UNION { { <<k, i, t>> : i \in {j \in DOMAIN vs[k].items :
                                    vs[k].items[j].receipt_document = purchase_document},
                            t \in DOMAIN vs[k].taxes }
            : k \in landed_cost_vouchers(vs, purchase_document) }

lcv_key(vs, x) ==
    <<vs[x[1]].items[x[2]].item_code, vs[x[1]].items[x[2]].purchase_receipt_item>>

lcv_account(vs, x) == vs[x[1]].taxes[x[3]].expense_account

RECURSIVE FSumSet(_, _, _)
\* the sum of a field of the shares of a set of visits
FSumSet(vs, xs, field) ==
    IF xs = {} THEN FInt(0)
    ELSE LET x == CHOOSE y \in xs : TRUE
         IN  FAdd(lcv_share(vs[x[1]], vs[x[1]].items[x[2]],
                            vs[x[1]].taxes[x[3]], field),
                  FSumSet(vs, xs \ {x}, field))

RECURSIVE Dedup(_)
\* a sequence without the later repetitions of its elements
Dedup(q) ==
    IF q = <<>> THEN <<>>
    ELSE LET front == Dedup(SubSeq(q, 1, Len(q) - 1))
         IN  IF \E i \in DOMAIN front : front[i] = q[Len(q)]
             THEN front ELSE Append(front, q[Len(q)])

\* the accounts of a set of visits in the order the loops first meet them:
\* by voucher, then by charge (a dict keeps insertion order)
lcv_accounts_in_order(vs, xs) ==
    Dedup(Concat([k \in DOMAIN vs |->
        SelectSeq2([t \in DOMAIN vs[k].taxes |-> vs[k].taxes[t].expense_account],
                   {t \in DOMAIN vs[k].taxes :
                        \E x \in xs : x[1] = k /\ x[3] = t})]))

\* {(item_code, row): {expense account: {amount, base_amount}}}, the accounts
\* of a row as a sequence in the dict's order; the empty function stands for
\* the None and the {} the code returns
get_item_account_wise_additional_cost(vs, purchase_document) ==
    LET visits == lcv_visits(vs, purchase_document)
        keys == {lcv_key(vs, x) : x \in visits}
    IN  [key \in keys |->
            LET mine == {x \in visits : lcv_key(vs, x) = key}
                order == lcv_accounts_in_order(vs, mine)
            IN  [n \in DOMAIN order |->
                    LET xs == {x \in mine : lcv_account(vs, x) = order[n]}
                    IN  [ account |-> order[n],
                          amount |-> FSumSet(vs, xs, "amount"),
                          base_amount |-> FSumSet(vs, xs, "base_amount") ]]]

\* make_item_gl_entries ---------------------------------------------------

\* add_provisional_gl_entry(item, gl_entries, posting_date,
\* provisional_account, reverse): with reverse, the amounts change sign and
\* the expense account is that of the receipt row the item names
add_provisional_gl_entry(item, provisional_account, reverse, pr_expense_account) ==
    LET multiplication_factor == IF reverse THEN -1 ELSE 1
        expense_account == IF reverse THEN pr_expense_account
                           ELSE item.expense_account
    IN  add_gl_entry(provisional_account, item.cost_center,
                     FInt(0), FInt(multiplication_factor * item.amount), item.name)
        \o add_gl_entry(expense_account, item.cost_center,
                     FInt(multiplication_factor * item.amount), FInt(0), item.name)

\* the two entries of a changed exchange rate between invoice and receipt
exchange_rate_entries(d, dc, s, pv, account) ==
    LET rate == exchange_rate_map(pv, d.purchase_invoice)
    IN  IF /\ d.purchase_invoice # ""
           /\ rate # 0
           /\ dc.conversion_rate # rate
           /\ d.net_rate = net_rate_map(pv, d.purchase_invoice_item)
        THEN LET discrepancy_caused_by_exchange_rate_difference ==
                    (d.qty * d.net_rate) * (rate - dc.conversion_rate)
             IN  add_gl_entry(account, d.cost_center, FInt(0),
                     FInt(discrepancy_caused_by_exchange_rate_difference), d.name)
                 \o add_gl_entry(s.exchange_gain_loss_account, d.cost_center,
                     FInt(discrepancy_caused_by_exchange_rate_difference),
                     FInt(0), d.name)
        ELSE <<>>

\* the credits of the landed cost vouchers' charges on a row
landed_cost_gl_entries(d, s, landed_cost_entries) ==
    IF /\ d.landed_cost_voucher_amount # 0
       /\ DOMAIN landed_cost_entries # {}
       /\ <<d.item_code, d.name>> \in DOMAIN landed_cost_entries
    THEN LET per_account == landed_cost_entries[<<d.item_code, d.name>>]
         IN  Concat([n \in DOMAIN per_account |->
                LET amount == per_account[n]
                    credit_amount ==
                        IF amount.base_amount.n # 0
                           \/ get_account_currency(amount.account, s)
                                  # s.company_currency
                        THEN amount.base_amount ELSE amount.amount
                IN  add_gl_entry(amount.account, d.cost_center,
                                 FInt(0), credit_amount, d.name)])
    ELSE <<>>

divisional_loss_account_always_valuation(d, dc, s) ==
    s.expenses_included_in_valuation

\* the account the divisional loss is debited to
divisional_loss_account(d, dc, s) ==
    IF dc.is_return # 0 \/ d.item_tax_amount # 0
    THEN s.expenses_included_in_valuation
    ELSE IF s.default_expense_account # ""
         THEN s.default_expense_account
         ELSE s.stock_received_but_not_billed

\* the entries of one stock item row whose warehouse has an account
stock_item_gl_entries(d, dc, s, sl, landed_cost_entries, pv) ==
    LET stock_rbnb == s.stock_received_but_not_billed
        stock_value_diff == sl[d.name].stock_value_difference
        warehouse_account_name == s.warehouse_account[d.warehouse]
        supplier_warehouse_account ==
            IF dc.supplier_warehouse = "" THEN ""
            ELSE s.warehouse_account[dc.supplier_warehouse]
        from_account ==
            IF d.from_warehouse # "" THEN s.warehouse_account[d.from_warehouse]
            ELSE stock_rbnb
        credit_currency == get_account_currency(from_account, s)
        internal == dc.is_internal_transfer /\ d.valuation_rate # 0
        outgoing_amount ==
            IF internal THEN Abs(sl[d.name].from_warehouse_difference)
            ELSE d.base_net_amount
        credit_amount ==
            IF internal THEN outgoing_amount
            ELSE IF credit_currency = s.company_currency
                 THEN d.base_net_amount ELSE d.net_amount
        valuation_amount_as_per_doc ==
            outgoing_amount + d.landed_cost_voucher_amount + d.rm_supp_cost
            + d.item_tax_amount + d.rate_difference_with_purchase_invoice
        divisional_loss == valuation_amount_as_per_doc - stock_value_diff
    IN  IF /\ stock_value_diff = d.rm_supp_cost
           /\ supplier_warehouse_account # ""
           /\ warehouse_account_name = supplier_warehouse_account
        THEN <<>>
        ELSE add_gl_entry(warehouse_account_name, d.cost_center,
                          FInt(stock_value_diff), FInt(0), d.name)
             \o (IF credit_amount # 0
                 THEN add_gl_entry(from_account, d.cost_center,
                                   FInt(-1 * outgoing_amount), FInt(0), d.name)
                      \o exchange_rate_entries(d, dc, s, pv, from_account)
                 ELSE <<>>)
             \o landed_cost_gl_entries(d, s, landed_cost_entries)
             \o (IF d.rate_difference_with_purchase_invoice # 0 /\ stock_rbnb # ""
                 THEN add_gl_entry(stock_rbnb, d.cost_center, FInt(0),
                          FInt(d.rate_difference_with_purchase_invoice), d.name)
                 ELSE <<>>)
             \o (IF d.rm_supp_cost # 0 /\ supplier_warehouse_account # ""
                 THEN add_gl_entry(supplier_warehouse_account, d.cost_center,
                                   FInt(0), FInt(d.rm_supp_cost), d.name)
                 ELSE <<>>)
             \o (IF divisional_loss # 0
                 THEN add_gl_entry(divisional_loss_account(d, dc, s),
                          IF d.cost_center # "" THEN d.cost_center
                          ELSE s.cost_center,
                          FInt(divisional_loss), FInt(0), d.name)
                 ELSE <<>>)

provisional_item_no_setting(d, s) ==
    /\ d.item_code \notin stock_items
    /\ d.is_fixed_asset = 0
    /\ d.qty # 0
    /\ d.provisional_expense_account # ""

\* the elif of the loop: a row that gets provisional entries
provisional_item(d, s) ==
    /\ d.item_code \notin stock_items
    /\ d.is_fixed_asset = 0
    /\ d.qty # 0
    /\ s.enable_provisional_accounting_for_non_stock_items # 0
    /\ d.provisional_expense_account # ""

\* the entries of one row
item_gl_entries(d, dc, s, sl, landed_cost_entries, pv) ==
    IF d.item_code \in stock_items /\ d.valuation_rate # 0 /\ d.qty # 0
    THEN IF s.warehouse_account[d.warehouse] # ""
         THEN stock_item_gl_entries(d, dc, s, sl, landed_cost_entries, pv)
         ELSE <<>>
    ELSE IF provisional_item(d, s)
         THEN add_provisional_gl_entry(d, d.provisional_expense_account,
                                       FALSE, "")
         ELSE <<>>

make_item_gl_entries(its, dc, s, sl, vs, pv) ==
    LET landed_cost_entries == get_item_account_wise_additional_cost(vs, dc.name)
    IN  Concat([i \in DOMAIN its |->
            item_gl_entries(its[i], dc, s, sl, landed_cost_entries, pv)])

\* make_tax_gl_entries ----------------------------------------------------

MsgCostCenter == "Cost Center is required in row {0} in Taxes table for type {1}"

MsgZeroDivision == "ZeroDivisionError: float division by zero"

is_valuation_tax_any_amount(tax) ==
    tax.category \in {"Valuation", "Valuation and Total"}

is_valuation_tax(tax) ==
    /\ tax.category \in {"Valuation", "Valuation and Total"}
    /\ tax.base_tax_amount_after_discount_amount # 0

\* valuation_tax[tax.name]
signed_tax_amount(tax) ==
    (IF tax.add_deduct_tax = "Add" THEN 1 ELSE -1)
        * tax.base_tax_amount_after_discount_amount

\* a submitted purchase invoice of this receipt has booked the account
negative_expense_booked_in_pi(pv, dc) ==
    \E i \in DOMAIN pv :
        /\ pv[i].docstatus = 1 /\ pv[i].purchase_receipt = dc.name
        /\ pv[i].booked_expenses_included_in_valuation

RECURSIVE tax_applicable_amounts(_, _, _, _)
\* the amounts of the valuation rows vt from the i-th on, by the loop;
\* left is amount_including_divisional_loss
tax_applicable_amounts(vt, i, negative_expense_to_be_booked, left) ==
    IF i > Len(vt) THEN <<>>
    ELSE IF i = Len(vt) THEN <<left>>
    ELSE LET total_valuation_amount ==
                 Sum([k \in DOMAIN vt |-> signed_tax_amount(vt[k])])
             applicable_amount ==
                 FMul(FInt(negative_expense_to_be_booked),
                      Frac(signed_tax_amount(vt[i]), total_valuation_amount))
         IN  <<applicable_amount>>
             \o tax_applicable_amounts(vt, i + 1, negative_expense_to_be_booked,
                                       FSub(left, applicable_amount))

\* [err, entries]: the error thrown, or the entries added
make_tax_gl_entries(its, txs, dc, s, pv) ==
    LET negative_expense_to_be_booked ==
            Sum([i \in DOMAIN its |-> its[i].item_tax_amount])
        rows == {i \in DOMAIN txs : is_valuation_tax(txs[i])}
        no_cost_center == FirstIndex({i \in rows : txs[i].cost_center = ""})
        vt == SelectSeq2(txs, rows)
        total_valuation_amount ==
            Sum([k \in DOMAIN vt |-> signed_tax_amount(vt[k])])
    IN  IF no_cost_center # 0
        THEN [err |-> Err(MsgCostCenter, no_cost_center), entries |-> <<>>]
        ELSE IF negative_expense_to_be_booked = 0 \/ vt = <<>>
        THEN [err |-> NoErr, entries |-> <<>>]
        ELSE IF Len(vt) > 1 /\ total_valuation_amount = 0
        THEN [err |-> Err(MsgZeroDivision, ""), entries |-> <<>>]
        ELSE LET amounts == tax_applicable_amounts(vt, 1,
                                negative_expense_to_be_booked,
                                FInt(negative_expense_to_be_booked))
             IN  [err |-> NoErr,
                  entries |-> Concat([k \in DOMAIN vt |->
                      add_gl_entry(
                          IF negative_expense_booked_in_pi(pv, dc)
                          THEN s.stock_received_but_not_billed
                          ELSE vt[k].account_head,
                          vt[k].cost_center, FInt(0), amounts[k], vt[k].name)])]

\* get_asset_gl_entry -----------------------------------------------------

is_cwip_accounting_enabled(asset_category, s) == asset_category \in s.cwip_categories

\* get_asset_account("capital_work_in_progress_account", ...): the category's
\* account, the company's default when the category has none or none is named
get_asset_account(asset_category, s) ==
    IF asset_category # "" /\ s.category_cwip_account[asset_category] # ""
    THEN s.category_cwip_account[asset_category]
    ELSE s.capital_work_in_progress_account

add_asset_gl_entries_net_only(item, dc, s) ==
    add_gl_entry(get_asset_account(item.asset_category, s), item.cost_center,
                 FInt(item.base_net_amount), FInt(0), item.name)
    \o add_gl_entry(s.asset_received_but_not_billed, item.cost_center,
                 FInt(0), FInt(item.base_net_amount), item.name)

add_asset_gl_entries(item, dc, s) ==
    LET base_asset_amount == item.base_net_amount + item.item_tax_amount
    IN  add_gl_entry(get_asset_account(item.asset_category, s), item.cost_center,
                     FInt(base_asset_amount), FInt(0), item.name)
        \o add_gl_entry(s.asset_received_but_not_billed, item.cost_center,
                     FInt(0), FInt(base_asset_amount), item.name)

add_lcv_gl_entries(item, dc, s) ==
    LET asset_account ==
            IF ~is_cwip_accounting_enabled(item.asset_category, s)
            THEN s.fixed_asset_account[item.asset_category]
            ELSE get_asset_account("", s)
    IN  add_gl_entry(s.expenses_included_in_asset_valuation, item.cost_center,
                     FInt(0), FInt(item.landed_cost_voucher_amount), item.name)
        \o add_gl_entry(asset_account, item.cost_center,
                     FInt(item.landed_cost_voucher_amount), FInt(0), item.name)

asset_item_gl_entries(item, dc, s) ==
    IF item.is_fixed_asset = 0 THEN <<>>
    ELSE (IF is_cwip_accounting_enabled(item.asset_category, s)
          THEN add_asset_gl_entries(item, dc, s) ELSE <<>>)
         \o (IF item.landed_cost_voucher_amount # 0
             THEN add_lcv_gl_entries(item, dc, s) ELSE <<>>)

get_asset_gl_entry(its, dc, s) ==
    Concat([i \in DOMAIN its |-> asset_item_gl_entries(its[i], dc, s)])

\* update_assets(item, valuation_rate) on the Asset table
update_assets(as, item, dc) ==
    [k \in DOMAIN as |->
        IF as[k].purchase_receipt = dc.name /\ as[k].item_code = item.item_code
        THEN [as[k] EXCEPT !.gross_purchase_amount = item.valuation_rate,
                           !.purchase_receipt_amount = item.valuation_rate]
        ELSE as[k]]

RECURSIVE assets_updated(_, _, _)
\* the Asset table after get_asset_gl_entry's loop over the rows its
assets_updated(as, its, dc) ==
    IF its = <<>> THEN as
    ELSE LET before == assets_updated(as, SubSeq(its, 1, Len(its) - 1), dc)
             item == its[Len(its)]
         IN  IF item.is_fixed_asset # 0 /\ item.landed_cost_voucher_amount # 0
             THEN update_assets(before, item, dc)
             ELSE before

\* get_gl_entries: [err, entries, assets].  A throw leaves no entries and
\* the assets as they were (the transaction is rolled back).
get_gl_entries(its, txs, dc, s, sl, vs, pv, as) ==
    LET item_entries == make_item_gl_entries(its, dc, s, sl, vs, pv)
        tax == make_tax_gl_entries(its, txs, dc, s, pv)
    IN  IF tax.err # NoErr
        THEN [err |-> tax.err, entries |-> <<>>, assets |-> as]
        ELSE [err |-> NoErr,
              entries |-> item_entries \o tax.entries
                          \o get_asset_gl_entry(its, dc, s),
              assets |-> assets_updated(as, its, dc)]

----------------------------------------------------------------------------
(* Billing status *)

\* the receipts' names in the order of the database's collation
ReceiptNames == <<"PR-1", "PR-2", "PR-3", "PR-4">>

NameRank(n) == CHOOSE i \in DOMAIN ReceiptNames : ReceiptNames[i] = n

\* `tabPurchase Receipt` joined with `tabPurchase Receipt Item`: the rows of
\* this receipt and of the others, each with its parent's fields
pr_table(dc, its, rc, oth) ==
    [i \in DOMAIN its |->
        [ name |-> its[i].name, parent |-> dc.name, idx |-> i,
          docstatus |-> dc.docstatus, is_return |-> dc.is_return,
          posting |-> dc.posting, return_against |-> "",
          purchase_receipt_item |-> "",
          purchase_order_item |-> its[i].purchase_order_item,
          qty |-> its[i].qty, rate |-> its[i].rate,
          amount |-> its[i].amount, billed_amt |-> its[i].billed_amt ]]
    \o
    [i \in DOMAIN oth |->
        [ name |-> oth[i].name, parent |-> oth[i].parent, idx |-> oth[i].idx,
          docstatus |-> rc[oth[i].parent].docstatus,
          is_return |-> rc[oth[i].parent].is_return,
          posting |-> rc[oth[i].parent].posting,
          return_against |-> rc[oth[i].parent].return_against,
          purchase_receipt_item |-> oth[i].purchase_receipt_item,
          purchase_order_item |-> oth[i].purchase_order_item,
          qty |-> oth[i].qty, rate |-> oth[i].rate,
          amount |-> oth[i].amount, billed_amt |-> oth[i].billed_amt ]]

\* .orderby(CombineDatetime(posting_date, posting_time)).orderby(name); the
\* rows of one receipt in the order of their idx
RowBefore(a, b) ==
    \/ a.posting < b.posting
    \/ a.posting = b.posting /\ NameRank(a.parent) < NameRank(b.parent)
    \/ a.posting = b.posting /\ a.parent = b.parent /\ a.idx < b.idx

RowBeforeByNameOnly(a, b) ==
    \/ NameRank(a.parent) < NameRank(b.parent)
    \/ a.parent = b.parent /\ a.idx < b.idx

\* the rows of the set keep of the table rows, ordered
OrderedRows(rows, keep) ==
    [n \in 1..Cardinality(keep) |->
        rows[CHOOSE i \in keep :
                Cardinality({j \in keep : RowBefore(rows[j], rows[i])}) = n - 1]]

get_purchase_receipts_against_po_details(rows, po_details) ==
    OrderedRows(rows, {i \in DOMAIN rows :
        /\ rows[i].purchase_order_item \in po_details
        /\ rows[i].docstatus = 1
        /\ rows[i].is_return = 0})

RECURSIVE SumF(_, _)
\* the sum of f over the set S of its domain
SumF(f, S) ==
    IF S = {} THEN 0
    ELSE LET i == CHOOSE j \in S : TRUE
         IN  f[i] + SumF(f, S \ {i})

\* fn.Sum(purchase_invoice_item.amount) over the rows of pv at the indices S
SumOver(pv, S) == SumF([i \in DOMAIN pv |-> pv[i].amount], S)

\* billed directly against a Purchase Receipt Item: 0 where the dict has no key
get_billed_amount_against_pr(pv, pr_item) ==
    SumOver(pv, {i \in DOMAIN pv :
        pv[i].pr_detail = pr_item /\ pv[i].docstatus = 1})

\* billed directly against a Purchase Order Item: by invoice rows that name
\* no receipt row
get_billed_amount_against_po(pv, po_item) ==
    SumOver(pv, {i \in DOMAIN pv :
        pv[i].po_detail = po_item /\ pv[i].docstatus = 1 /\ pv[i].pr_detail = ""})

fifo_step_no_cap(pr_item, billed_against_po, direct) ==
    IF billed_against_po # 0 /\ direct < pr_item.amount
    THEN [billed |-> direct + billed_against_po, left |-> 0]
    ELSE [billed |-> direct, left |-> billed_against_po]

\* one turn of the loop: the row's new billed amount and what is left of the
\* amount billed against its purchase order item
fifo_step(pr_item, billed_against_po, direct) ==
    IF billed_against_po # 0 /\ direct < pr_item.amount
    THEN LET pending_to_bill == pr_item.amount - direct
         IN  IF pending_to_bill <= billed_against_po
             THEN [billed |-> direct + pending_to_bill,
                   left |-> billed_against_po - pending_to_bill]
             ELSE [billed |-> direct + billed_against_po, left |-> 0]
    ELSE [billed |-> direct, left |-> billed_against_po]

RECURSIVE fifo_loop(_, _, _, _)
\* the loop over pr_details from the n-th row on: [billed: the billed amount
\* computed for each row, updated_pr: the parents of the rows it changed]
fifo_loop(pr_details, n, po_billed_amt_details, pv) ==
    IF n > Len(pr_details)
    THEN [billed |-> <<>>, updated_pr |-> <<>>]
    ELSE LET pr_item == pr_details[n]
             step == fifo_step(pr_item,
                         po_billed_amt_details[pr_item.purchase_order_item],
                         get_billed_amount_against_pr(pv, pr_item.name))
             rest == fifo_loop(pr_details, n + 1,
                         [po_billed_amt_details EXCEPT
                              ![pr_item.purchase_order_item] = step.left], pv)
         IN  [ billed |-> <<step.billed>> \o rest.billed,
               updated_pr |->
                   (IF pr_item.billed_amt # step.billed
                    THEN <<pr_item.parent>> ELSE <<>>) \o rest.updated_pr ]

\* the distribution without its list of the receipts it changed
update_billed_amount_based_on_po_unreported(rows, po_details, pv) ==
    LET pr_details == get_purchase_receipts_against_po_details(rows, po_details)
        out == fifo_loop(pr_details, 1,
                   [po \in po_details |-> get_billed_amount_against_po(pv, po)],
                   pv)
    IN  [ rows |-> [i \in DOMAIN rows |->
                      IF \E n \in DOMAIN pr_details :
                             pr_details[n].name = rows[i].name
                      THEN LET n == CHOOSE m \in DOMAIN pr_details :
                                        pr_details[m].name = rows[i].name
                           IN  [rows[i] EXCEPT !.billed_amt = out.billed[n]]
                      ELSE rows[i]],
          updated_pr |-> <<>> ]

\* [rows: the table with the billed amounts set, updated_pr]
update_billed_amount_based_on_po(rows, po_details, pv) ==
    LET pr_details == get_purchase_receipts_against_po_details(rows, po_details)
        out == fifo_loop(pr_details, 1,
                   [po \in po_details |-> get_billed_amount_against_po(pv, po)],
                   pv)
    IN  [ rows |-> [i \in DOMAIN rows |->
                      IF \E n \in DOMAIN pr_details :
                             pr_details[n].name = rows[i].name
                      THEN LET n == CHOOSE m \in DOMAIN pr_details :
                                        pr_details[m].name = rows[i].name
                           IN  [rows[i] EXCEPT !.billed_amt = out.billed[n]]
                      ELSE rows[i]],
          updated_pr |-> out.updated_pr ]

\* the precision of per_billed: round(..., 6)
PercentScale == 1000000

\* n / d (d > 0) rounded to the nearest integer, a tie to the even one
RoundHalfEven(n, d) ==
    LET q == n \div d
        r == n % d
    IN  IF 2 * r < d THEN q
        ELSE IF 2 * r > d THEN q + 1
        ELSE IF q % 2 = 0 THEN q ELSE q + 1

\* round(x, 6) of the quotient n / d (d # 0): the whole part, and the rest
\* rounded to the millionth
Round6(n, d) ==
    LET num == IF d < 0 THEN -n ELSE n
        den == Abs(d)
    IN  Frac((num \div den) * PercentScale
               + RoundHalfEven((num % den) * PercentScale, den),
             PercentScale)

\* get_item_wise_returned_qty(pr_doc)[name]: sum(abs(qty)) of the rows of
\* submitted return receipts made against the row; 0 where there is none
get_item_wise_returned_qty(rows, name) ==
    SumF([i \in DOMAIN rows |-> Abs(rows[i].qty)],
         {i \in DOMAIN rows :
            /\ rows[i].docstatus = 1 /\ rows[i].is_return = 1
            /\ rows[i].purchase_receipt_item = name})

total_billable_amount_no_returns(rows, item) ==
    IF item.billed_amt <= item.amount THEN item.amount ELSE item.billed_amt

total_billable_amount_pending_only(rows, item) ==
    item.amount - get_item_wise_returned_qty(rows, item.name) * item.rate

\* what a row adds to total_amount
total_billable_amount(rows, item) ==
    LET returned_qty == get_item_wise_returned_qty(rows, item.name)
        returned_amount == returned_qty * item.rate
        pending_amount == item.amount - returned_amount
    IN  IF item.billed_amt <= pending_amount THEN pending_amount
        ELSE item.billed_amt

\* update_billing_percentage(pr_doc): the per_billed it sets on receipt pr
update_billing_percentage(rows, pr) ==
    LET mine == {i \in DOMAIN rows : rows[i].parent = pr}
        total_amount ==
            SumF([i \in DOMAIN rows |-> total_billable_amount(rows, rows[i])], mine)
        total_billed_amount ==
            SumF([i \in DOMAIN rows |-> rows[i].billed_amt], mine)
    IN  Round6(100 * total_billed_amount,
               IF total_amount # 0 THEN total_amount ELSE 1)

\* the receipts of a set in the order of their names
RECURSIVE InNameOrder(_)
InNameOrder(S) ==
    IF S = {} THEN <<>>
    ELSE LET first == CHOOSE x \in S : \A y \in S : NameRank(x) <= NameRank(y)
         IN  <<first>> \o InNameOrder(S \ {first})

\* PurchaseReceipt.update_billing_status: [items, others, per_billed: the
\* percentage set on each receipt it recomputes, recomputed: those receipts,
\* one update_billing_percentage call each]
update_billing_status(dc, its, rc, oth, pv) ==
    LET its1 == [i \in DOMAIN its |->
                    IF its[i].purchase_invoice # ""
                       /\ its[i].purchase_invoice_item # ""
                    THEN [its[i] EXCEPT !.billed_amt = its[i].amount]
                    ELSE its[i]]
        po_details == {its[i].purchase_order_item : i \in
                          {j \in DOMAIN its :
                              /\ ~(its[j].purchase_invoice # ""
                                   /\ its[j].purchase_invoice_item # "")
                              /\ its[j].purchase_order_item # ""}}
        rows1 == pr_table(dc, its1, rc, oth)
        based_on_po == IF po_details # {}
                       THEN update_billed_amount_based_on_po(rows1, po_details, pv)
                       ELSE [rows |-> rows1, updated_pr |-> <<>>]
        rows2 == based_on_po.rows
        updated_pr == {dc.name}
                      \cup {based_on_po.updated_pr[k] :
                                k \in DOMAIN based_on_po.updated_pr}
    IN  [ items |-> [i \in DOMAIN its |->
                        [its1[i] EXCEPT !.billed_amt = rows2[i].billed_amt]],
          others |-> [i \in DOMAIN oth |->
                        [oth[i] EXCEPT !.billed_amt =
                                          rows2[Len(its) + i].billed_amt]],
          per_billed |-> [pr \in updated_pr |->
                             update_billing_percentage(rows2, pr)],
          recomputed |-> InNameOrder(updated_pr) ]

----------------------------------------------------------------------------
(* make_purchase_invoice *)

MsgAllInvoiced == "All items have already been Invoiced/Returned"

MsgCannotMap == "Cannot map because following condition fails: docstatus=1"

\* the rows the query of get_returned_qty_map selects
returned_rows(rows, purchase_receipt) ==
    {i \in DOMAIN rows :
        /\ rows[i].docstatus = 1 /\ rows[i].is_return = 1
        /\ rows[i].return_against = purchase_receipt}

\* get_returned_qty_map: frappe._dict(rows) keeps, of the selected rows with
\* one purchase_receipt_item, the one the database returns last.  The query
\* states no order: every choice of that row is a possible map.
get_returned_qty_maps(rows, purchase_receipt) ==
    LET sel == returned_rows(rows, purchase_receipt)
        keys == {rows[i].purchase_receipt_item : i \in sel}
    IN  { [k \in keys |-> Abs(rows[pick[k]].qty)] :
            pick \in { f \in [keys -> sel] :
                         \A k \in keys : rows[f[k]].purchase_receipt_item = k } }

\* get_invoiced_qty_map(purchase_receipt).get(pr_detail, 0)
get_invoiced_qty_map(pv, purchase_receipt, pr_detail) ==
    SumF([i \in DOMAIN pv |-> pv[i].qty],
         {i \in DOMAIN pv :
            /\ pv[i].purchase_receipt = purchase_receipt
            /\ pv[i].docstatus = 1 /\ pv[i].pr_detail = pr_detail})

get_pending_qty_ignoring_invoiced(item_row, returned_qty_map, pv, s) ==
    LET qty == IF s.bill_for_rejected_quantity_in_purchase_invoice # 0
               THEN item_row.received_qty ELSE item_row.qty
        returned_qty == IF item_row.name \in DOMAIN returned_qty_map
                        THEN returned_qty_map[item_row.name] ELSE 0
    IN  IF returned_qty # 0 /\ returned_qty >= qty
        THEN [pending_qty |-> 0, returned_qty |-> returned_qty]
        ELSE [pending_qty |-> qty - returned_qty, returned_qty |-> 0]

\* get_pending_qty(item_row): (pending_qty, returned_qty)
get_pending_qty(item_row, returned_qty_map, pv, s) ==
    LET qty == IF s.bill_for_rejected_quantity_in_purchase_invoice # 0
               THEN item_row.received_qty ELSE item_row.qty
        pending_qty == qty - get_invoiced_qty_map(pv, item_row.parent, item_row.name)
        returned_qty == IF item_row.name \in DOMAIN returned_qty_map
                        THEN returned_qty_map[item_row.name] ELSE 0
    IN  IF returned_qty # 0
        THEN IF returned_qty >= pending_qty
             \* pending_qty = 0, then returned_qty -= pending_qty
             THEN [pending_qty |-> 0, returned_qty |-> returned_qty - 0]
             ELSE [pending_qty |-> pending_qty - returned_qty, returned_qty |-> 0]
        ELSE [pending_qty |-> pending_qty, returned_qty |-> returned_qty]

\* "filter" of the item mapping: get_mapped_doc leaves out the rows for which
\* it is true
mapping_filter(item_row, dc, returned_qty_map, pv, s) ==
    IF dc.is_return = 0
    THEN get_pending_qty(item_row, returned_qty_map, pv, s).pending_qty <= 0
    ELSE get_pending_qty(item_row, returned_qty_map, pv, s).pending_qty > 0

RECURSIVE map_items(_, _, _, _, _, _)
\* get_mapped_doc over the rows from the n-th on: the invoice rows.  After a
\* row is mapped update_item stores the row's left-over returned quantity.
map_items(its, n, dc, returned_qty_map, pv, s) ==
    IF n > Len(its) THEN <<>>
    ELSE LET item_row == [its[n] EXCEPT !.parent = dc.name]
         IN  IF mapping_filter(item_row, dc, returned_qty_map, pv, s)
             THEN map_items(its, n + 1, dc, returned_qty_map, pv, s)
             ELSE LET got == get_pending_qty(item_row, returned_qty_map, pv, s)
                      stored == [k \in DOMAIN returned_qty_map \cup {item_row.name} |->
                                    IF k = item_row.name THEN got.returned_qty
                                    ELSE returned_qty_map[k]]
                  IN  << [ pr_detail |-> item_row.name,
                           purchase_receipt |-> dc.name,
                           po_detail |-> item_row.purchase_order_item,
                           purchase_order |-> item_row.purchase_order,
                           item_code |-> item_row.item_code,
                           rate |-> item_row.rate,
                           qty |-> got.pending_qty,
                           rejected_qty |->
                               IF s.bill_for_rejected_quantity_in_purchase_invoice # 0
                               THEN 0
                               ELSE item_row.received_qty - item_row.qty ] >>
                      \o map_items(its, n + 1, dc, stored, pv, s)

\* make_purchase_invoice(source_name): [err, mapped, items]
make_purchase_invoice(dc, its, returned_qty_map, pv, s) ==
    IF dc.docstatus # 1
    THEN [err |-> Err(MsgCannotMap, ""), mapped |-> FALSE, items |-> <<>>]
    ELSE LET rows == map_items(its, 1, dc, returned_qty_map, pv, s)
         IN  IF Len(rows) = 0
             THEN [err |-> Err(MsgAllInvoiced, ""), mapped |-> FALSE, items |-> <<>>]
             ELSE [err |-> NoErr, mapped |-> TRUE, items |-> rows]

----------------------------------------------------------------------------
(* The hooks and the module's functions, as actions *)

MsgAlreadySubmitted == "Purchase Invoice {0} is already submitted"

\* update_stock_ledger writes one Stock Ledger Entry per stock item row and
\* warehouse.  Its stock_value_difference is the row's valuation, up to what
\* rounding the valuation rate loses (a sub-contracted row with a zero rate
\* is worth its raw materials).  The entry of the source warehouse of an
\* internal transfer is negative.
SleChoices(d, dc) ==
    IF d.item_code \notin stock_items
    THEN {[stock_value_difference |-> 0, from_warehouse_difference |-> 0]}
    ELSE LET valuation == d.base_net_amount + d.landed_cost_voucher_amount
                          + d.rm_supp_cost + d.item_tax_amount
                          + d.rate_difference_with_purchase_invoice
         IN  { [ stock_value_difference |-> v,
                 from_warehouse_difference |->
                     IF dc.is_internal_transfer
                     THEN -1 * (d.base_net_amount + 1) ELSE 0 ]
               : v \in {valuation, valuation + 1} }

SleWritten(its, dc) ==
    { sl \in [{its[i].name : i \in DOMAIN its} ->
                UNION {SleChoices(its[i], dc) : i \in DOMAIN its}] :
        \A i \in DOMAIN its : sl[its[i].name] \in SleChoices(its[i], dc) }

\* the calls update_billing_status adds to the log
billing_calls(b) ==
    <<Call("update_billing_status")>>
    \o [i \in DOMAIN b.recomputed |->
            CallFor("update_billing_percentage", b.recomputed[i])]

\* the receipts table with the percentages update_billing_status set
receipts_billed(rc, b) ==
    [r \in DOMAIN rc |->
        IF r \in DOMAIN b.per_billed
        THEN [rc[r] EXCEPT !.per_billed = b.per_billed[r]] ELSE rc[r]]

\* the calls of a log up to and including the first call of fn: what ran
\* when fn threw
Through(log, fn) ==
    LET k == FirstIndex({i \in DOMAIN log : log[i].fn = fn})
    IN  IF k = 0 THEN log ELSE SubSeq(log, 1, k)

on_submit_calls_ledger_first(step) ==
    Calls(<<"super.on_submit", "validate_approving_authority",
            "update_stock_ledger", "update_prevdoc_status">>)
    \o step
    \o Calls(<<"make_gl_entries", "repost_future_sle_and_gle",
               "set_consumed_qty_in_subcontract_order">>)

\* the calls of on_submit in their order, step those of its billing branch
on_submit_calls(step) ==
    Calls(<<"super.on_submit", "validate_approving_authority",
            "update_prevdoc_status">>)
    \o step
    \o Calls(<<"update_stock_ledger", "make_gl_entries",
               "repost_future_sle_and_gle",
               "set_consumed_qty_in_subcontract_order">>)

per_billed_up_to_100(dc) == ~FLess(FInt(100), dc.per_billed)

\* the condition of on_submit's billing branch: flt(self.per_billed) < 100
per_billed_below_100(dc) == FLess(dc.per_billed, FInt(100))

\* PurchaseReceipt.on_submit.  The document is saved with docstatus 1 before
\* the hook runs.  A throw while the entries are built rolls everything back.
on_submit ==
    /\ doc.docstatus = 0 /\ phase \in {"validated", "map_failed"}
    /\ \E sl \in SleWritten(items, doc),
          b \in {update_billing_status([doc EXCEPT !.docstatus = 1], items,
                                       receipts, others, pinv)} :
        LET dc1 == [doc EXCEPT !.docstatus = 1]
            to_bill == per_billed_below_100(doc)
            its2 == IF to_bill THEN b.items ELSE items
            dc2 == IF to_bill
                   THEN [dc1 EXCEPT !.per_billed = b.per_billed[doc.name]]
                   ELSE [dc1 EXCEPT !.status = "Completed"]
            g == get_gl_entries(its2, taxes, dc2, settings, sl, lcv, pinv, assets)
            step == IF to_bill THEN billing_calls(b)
                    ELSE <<Call("db_set_status_completed")>>
            all == on_submit_calls(step)
        IN  IF g.err # NoErr
            THEN /\ err' = g.err
                 /\ phase' = "submit_failed"
                 /\ calls' = Through(all, "make_gl_entries")
                 /\ UNCHANGED <<doc, items, receipts, others, sle, assets,
                                gl_entries>>
            ELSE /\ err' = NoErr
                 /\ phase' = "submitted"
                 /\ doc' = dc2
                 /\ items' = its2
                 /\ others' = IF to_bill THEN b.others ELSE others
                 /\ receipts' = IF to_bill THEN receipts_billed(receipts, b)
                                ELSE receipts
                 /\ sle' = sl
                 /\ gl_entries' = g.entries
                 /\ assets' = g.assets
                 /\ calls' = all
    /\ UNCHANGED <<taxes, settings, qi, pinv, lcv, target, returned>>

\* the submitted purchase invoices with an item of this receipt
submitted_invoices_any_docstatus(pv, dc) ==
    {i \in DOMAIN pv : pv[i].purchase_receipt = dc.name /\ pv[i].docstatus # 2}

submitted_invoices(pv, dc) ==
    {i \in DOMAIN pv : pv[i].purchase_receipt = dc.name /\ pv[i].docstatus = 1}

\* the calls of on_cancel in their order, step those of update_billing_status
on_cancel_calls(step) ==
    Calls(<<"super.on_cancel", "check_on_hold_or_closed_status",
            "update_prevdoc_status">>)
    \o step
    \o Calls(<<"update_stock_ledger", "make_gl_entries_on_cancel",
               "repost_future_sle_and_gle", "delete_auto_created_batches",
               "set_consumed_qty_in_subcontract_order">>)

\* PurchaseReceipt.on_cancel.  The document is saved with docstatus 2 before
\* the hook runs; the throw rolls that back.
on_cancel ==
    /\ doc.docstatus = 1
    /\ \E b \in {update_billing_status([doc EXCEPT !.docstatus = 2], items,
                                        receipts, others, pinv)} :
       LET submitted == submitted_invoices(pinv, doc)
           dc1 == [doc EXCEPT !.docstatus = 2]
       IN  IF submitted # {}
           THEN /\ err' = Err(MsgAlreadySubmitted,
                              pinv[FirstIndex(submitted)].parent)
                /\ phase' = "cancel_failed"
                /\ calls' = Through(on_cancel_calls(<<>>),
                                    "check_on_hold_or_closed_status")
                /\ UNCHANGED <<doc, items, receipts, others, sle, gl_entries>>
           ELSE /\ err' = NoErr
                /\ phase' = "cancelled"
                /\ doc' = [dc1 EXCEPT !.per_billed = b.per_billed[doc.name]]
                /\ items' = b.items
                /\ others' = b.others
                /\ receipts' = receipts_billed(receipts, b)
                /\ sle' = NoSle
                /\ gl_entries' = <<>>
                /\ calls' = on_cancel_calls(billing_calls(b))
    /\ UNCHANGED <<taxes, settings, qi, pinv, assets, lcv, target, returned>>

MsgAttributeError == "AttributeError: 'PurchaseReceipt' object has no attribute '{0}'"

\* PurchaseReceipt.check_next_docstatus: the throw formats its message with
\* self.submit_rv, an attribute the document does not have, where the rows
\* are in the local submit_rv
check_next_docstatus(pv, dc) ==
    LET submit_rv == submitted_invoices(pv, dc)
    IN  IF submit_rv # {} THEN Err(MsgAttributeError, "submit_rv") ELSE NoErr

check_next_docstatus_call ==
    /\ doc.docstatus = 1
    /\ err' = check_next_docstatus(pinv, doc)
    /\ phase' = "next_docstatus_checked"
    /\ calls' = <<>>
    /\ UNCHANGED <<doc, items, taxes, dbVars, gl_entries, target, returned>>

\* PurchaseInvoice.update_billing_status_in_pr, run when an invoice is
\* submitted or cancelled: the receipt rows the invoice names get what the
\* submitted invoices bill them, the purchase order items of its other rows
\* go through update_billed_amount_based_on_po, and every receipt touched gets
\* update_billing_percentage
update_billing_status_in_pr(dc, its, rc, oth, pv, invoice) ==
    LET mine == {i \in DOMAIN pv : pv[i].parent = invoice}
        direct == {pv[i].pr_detail : i \in {j \in mine : pv[j].pr_detail # ""}}
        po_details == {pv[i].po_detail : i \in
                          {j \in mine : pv[j].pr_detail = "" /\ pv[j].po_detail # ""}}
        rows0 == pr_table(dc, its, rc, oth)
        rows1 == [i \in DOMAIN rows0 |->
                    IF rows0[i].name \in direct
                    THEN [rows0[i] EXCEPT !.billed_amt =
                              get_billed_amount_against_pr(pv, rows0[i].name)]
                    ELSE rows0[i]]
        based_on_po == IF po_details # {}
                       THEN update_billed_amount_based_on_po(rows1, po_details, pv)
                       ELSE [rows |-> rows1, updated_pr |-> <<>>]
        rows2 == based_on_po.rows
        updated_pr == {pv[i].purchase_receipt :
                          i \in {j \in mine : pv[j].pr_detail # ""}}
                      \cup {based_on_po.updated_pr[k] :
                                k \in DOMAIN based_on_po.updated_pr}
    IN  [ items |-> [i \in DOMAIN its |->
                        [its[i] EXCEPT !.billed_amt = rows2[i].billed_amt]],
          others |-> [i \in DOMAIN oth |->
                        [oth[i] EXCEPT !.billed_amt =
                                          rows2[Len(its) + i].billed_amt]],
          per_billed |-> [pr \in updated_pr |->
                             update_billing_percentage(rows2, pr)],
          recomputed |-> InNameOrder(updated_pr) ]

\* the invoices all of whose rows have the docstatus ds
invoices_with(pv, ds) ==
    {pv[i].parent : i \in {j \in DOMAIN pv :
        \A k \in DOMAIN pv : pv[k].parent = pv[j].parent => pv[k].docstatus = ds}}

\* the environment: the invoice's docstatus goes from one value to another
\* and the receipts' billing status is refreshed
set_invoice_docstatus(invoice, ds, name) ==
    LET pv1 == [i \in DOMAIN pinv |->
                   IF pinv[i].parent = invoice
                   THEN [pinv[i] EXCEPT !.docstatus = ds] ELSE pinv[i]]
        b == update_billing_status_in_pr(doc, items, receipts, others, pv1, invoice)
    IN  /\ pinv' = pv1
        /\ items' = b.items
        /\ others' = b.others
        /\ receipts' = receipts_billed(receipts, b)
        /\ doc' = IF doc.name \in DOMAIN b.per_billed
                  THEN [doc EXCEPT !.per_billed = b.per_billed[doc.name]]
                  ELSE doc
        /\ phase' = name
        /\ err' = NoErr
        /\ calls' = <<>>
        /\ UNCHANGED <<taxes, settings, qi, sle, assets, lcv, gl_entries, target, returned>>

\* a Purchase Invoice made against the submitted receipt is submitted
submit_purchase_invoice ==
    /\ doc.docstatus = 1
    /\ \E invoice \in invoices_with(pinv, 0) :
           set_invoice_docstatus(invoice, 1, "invoice_submitted")

\* a submitted Purchase Invoice is cancelled
cancel_purchase_invoice ==
    /\ \E invoice \in invoices_with(pinv, 1) :
           set_invoice_docstatus(invoice, 2, "invoice_cancelled")

\* the receipt rows for which make_item_gl_entries posts provisional entries
provisional_rows(its, s) == {i \in DOMAIN its : provisional_item(its[i], s)}

\* A submitted Purchase Invoice books the expense of a row it bills and calls
\* add_provisional_gl_entry(item, gl_entries, posting_date,
\* provisional_account, reverse=1) of the receipt, item being the invoice's
\* row.  gl_entries holds what the call appended.
reverse_provisional_gl_entry ==
    /\ doc.docstatus = 1
    /\ phase = "submitted"
    /\ \E i \in provisional_rows(items, settings), billed \in {0, 1} :
        LET d == items[i]
            item == [ name |-> "PII-9", pr_detail |-> d.name,
                      amount |-> d.amount - billed,
                      cost_center |-> d.cost_center,
                      expense_account |-> "Invoice Expenses - C" ]
        IN  /\ gl_entries' = add_provisional_gl_entry(item,
                                 d.provisional_expense_account, TRUE,
                                 d.expense_account)
            /\ calls' = <<CallFor("add_provisional_gl_entry",
                                   [pr_detail |-> d.name, amount |-> item.amount])>>
    /\ phase' = "provisional_reversed"
    /\ err' = NoErr
    /\ UNCHANGED <<doc, items, taxes, dbVars, target, returned>>

\* invoices a session makes from the receipt
MaxInvoices == 1

\* what get_pending_qty returned when the filter called it for each row, the
\* returned quantities being those of get_returned_qty_map; a document that
\* fails the validation of the mapping has no row filtered
pending_qty_calls(dc, its, returned_qty_map, pv, s) ==
    IF dc.docstatus # 1 THEN <<>>
    ELSE [i \in DOMAIN its |->
             get_pending_qty([its[i] EXCEPT !.parent = dc.name],
                             returned_qty_map, pv, s)]

\* make_purchase_invoice(source_name) on the stored receipt: a draft is in
\* the database once it has passed validate.  The rows the query of
\* get_returned_qty_map returns come in an order the database chooses.
\* returned holds what get_returned_qty_map and the calls of get_pending_qty
\* returned.
make_purchase_invoice_call ==
    /\ phase \notin {"draft", "rejected"}
    /\ \E returned_qty_map \in
            get_returned_qty_maps(pr_table(doc, items, receipts, others), doc.name) :
        LET made == make_purchase_invoice(doc, items, returned_qty_map, pinv, settings)
        IN  /\ err' = made.err
            /\ target' = [mapped |-> made.mapped, items |-> made.items]
            /\ returned' = [ returned_qty_map |-> returned_qty_map,
                             pending_qty |-> pending_qty_calls(doc, items,
                                                 returned_qty_map, pinv, settings) ]
            /\ phase' = IF made.mapped THEN "mapped"
                        ELSE IF doc.docstatus = 0 THEN "map_failed"
                        ELSE "nothing_to_map"
    /\ calls' = <<Call("get_returned_qty_map"), Call("get_invoiced_qty_map"),
                  Call("get_mapped_doc")>>
    /\ UNCHANGED <<doc, items, taxes, dbVars, gl_entries>>

InvoiceName(n) == <<"PINV-1", "PINV-2", "PINV-3", "PINV-4">>[n]

\* the name of the k-th row of `tabPurchase Invoice Item`
ItemName(k) ==
    <<"PII-1", "PII-2", "PII-3", "PII-4", "PII-5", "PII-6", "PII-7", "PII-8">>[k]

\* the user saves the mapped invoice as a draft: its rows enter
\* `tabPurchase Invoice Item`, the amounts as calculate_taxes_and_totals sets
\* them
insert_purchase_invoice ==
    /\ target.mapped
    /\ \E n \in 2..(MaxInvoices + 1) :
        /\ \A i \in DOMAIN pinv : pinv[i].parent # InvoiceName(n)
        /\ \A m \in 2..(n - 1) : \E i \in DOMAIN pinv : pinv[i].parent = InvoiceName(m)
        /\ pinv' = pinv \o
              [i \in DOMAIN target.items |->
                  [ name |-> ItemName(Len(pinv) + i),
                    parent |-> InvoiceName(n), docstatus |-> 0,
                    amount |-> target.items[i].qty * target.items[i].rate,
                    qty |-> target.items[i].qty,
                    po_detail |-> target.items[i].po_detail,
                    pr_detail |-> target.items[i].pr_detail,
                    purchase_receipt |-> target.items[i].purchase_receipt,
                    conversion_rate |-> doc.conversion_rate,
                    net_rate |-> target.items[i].rate,
                    booked_expenses_included_in_valuation |-> FALSE ]]
    /\ target' = NoTarget
    /\ phase' = "invoice_saved"
    /\ err' = NoErr
    /\ calls' = <<>>
    /\ UNCHANGED <<doc, items, taxes, settings, qi, receipts, others, sle,
                   assets, lcv, gl_entries, returned>>

----------------------------------------------------------------------------
(* The ledger scenarios: receipts under perpetual inventory that are        *)
(* validated and submitted.  A first family varies, on one stock row, every *)
(* amount that enters the valuation, the warehouse, the supplier warehouse  *)
(* and the valuation tax rows; a second one mixes stock rows, service rows  *)
(* and fixed assets; a third one is the internal transfer.                  *)

\* rows of a receipt in the mixed ledger scenarios
MaxGLRows == 2

RowName(i) == <<"row-1", "row-2", "row-3", "row-4">>[i]

\* the rows with the names the database gives them
Named(rows) == [i \in DOMAIN rows |-> [rows[i] EXCEPT !.name = RowName(i)]]

StockRow ==
    [ItemRow EXCEPT !.rate = 100, !.net_rate = 100, !.amount = 100,
                    !.net_amount = 100, !.base_net_amount = 100]

\* a sub-contracted row whose finished good has a zero rate
SubcontractedRow ==
    [ItemRow EXCEPT !.rm_supp_cost = 11]

\* a row with the valuation rate the buying controller gives it
Valued(d) ==
    [d EXCEPT !.valuation_rate =
        d.base_net_amount + d.landed_cost_voucher_amount + d.rm_supp_cost
        + d.item_tax_amount + d.rate_difference_with_purchase_invoice]

GLStockRows ==
    { IF valued THEN Valued(d) ELSE d :
        valued \in BOOLEAN,
        d \in { [StockRow EXCEPT !.landed_cost_voucher_amount = l,
                                 !.rm_supp_cost = r, !.item_tax_amount = t,
                                 !.rate_difference_with_purchase_invoice = rd,
                                 !.warehouse = w]
                  : l \in {0, 7}, r \in {0, 11}, t \in {0, 13}, rd \in {0, 3},
                    w \in {"Stores", "Yard"} } }
    \cup { Valued([SubcontractedRow EXCEPT !.landed_cost_voucher_amount = l])
             : l \in {0, 7} }

ServiceRow ==
    [ItemRow EXCEPT !.item_code = "SERVICE-X", !.rate = 40, !.net_rate = 40,
                    !.amount = 40, !.net_amount = 40, !.base_net_amount = 40,
                    !.warehouse = ""]

AssetRow ==
    [ItemRow EXCEPT !.item_code = "ASSET-M", !.is_fixed_asset = 1,
                    !.asset_category = "Machinery", !.rate = 500,
                    !.net_rate = 500, !.amount = 500, !.net_amount = 500,
                    !.base_net_amount = 500, !.warehouse = ""]

GLMixedRows ==
    { Valued([StockRow EXCEPT !.item_tax_amount = 13]),
      Valued([StockRow EXCEPT !.purchase_invoice = "PINV-1",
                              !.purchase_invoice_item = "PII-1"]),
      ServiceRow,
      [ServiceRow EXCEPT !.provisional_expense_account = "Accrued Services - C"],
      [ServiceRow EXCEPT !.qty = 0,
                         !.provisional_expense_account = "Accrued Services - C"],
      Valued([AssetRow EXCEPT !.item_tax_amount = 13,
                              !.landed_cost_voucher_amount = 7]),
      Valued([AssetRow EXCEPT !.landed_cost_voucher_amount = 7]),
      Valued(AssetRow),
      Valued([AssetRow EXCEPT !.item_code = "ASSET-F",
                              !.asset_category = "Furniture",
                              !.landed_cost_voucher_amount = 5]) }

ValuationTax ==
    [TaxRow EXCEPT !.category = "Valuation",
                   !.base_tax_amount_after_discount_amount = 13]

\* the Taxes tables: none, one valuation row, two of them, one without a cost
\* center, an Add and a Deduct row that cancel, a row not for valuation, a
\* valuation row followed by one without a cost center, and a valuation row
\* after two rows without a cost center that are not for valuation or are of
\* no amount
GLTaxes ==
    << <<>>,
       << ValuationTax >>,
       << [ValuationTax EXCEPT !.base_tax_amount_after_discount_amount = 10],
          [ValuationTax EXCEPT !.category = "Valuation and Total",
                               !.base_tax_amount_after_discount_amount = 3,
                               !.account_head = "Customs - C"] >>,
       << [ValuationTax EXCEPT !.cost_center = ""] >>,
       << [ValuationTax EXCEPT !.base_tax_amount_after_discount_amount = 5],
          [ValuationTax EXCEPT !.add_deduct_tax = "Deduct",
                               !.base_tax_amount_after_discount_amount = 5] >>,
       << [ValuationTax EXCEPT !.category = "Total"] >>,
       << [ValuationTax EXCEPT !.base_tax_amount_after_discount_amount = 10],
          [ValuationTax EXCEPT !.category = "Valuation and Total",
                               !.base_tax_amount_after_discount_amount = 3,
                               !.cost_center = ""] >>,
       << [ValuationTax EXCEPT !.category = "Total", !.cost_center = ""],
          [ValuationTax EXCEPT !.base_tax_amount_after_discount_amount = 0,
                               !.cost_center = ""],
          ValuationTax >> >>

TaxName(i) == <<"tax-1", "tax-2", "tax-3">>[i]

NamedTaxes(txs) == [i \in DOMAIN txs |-> [txs[i] EXCEPT !.name = TaxName(i)]]

\* the Landed Cost Voucher behind a landed cost of 7 on row-1: two charges
LandedCost(amount) ==
    IF amount = 0 THEN <<>>
    ELSE << [ docstatus |-> 1, receipt_documents |-> {ThisReceipt},
              distribute_charges_based_on |-> "Amount",
              items |-> << [ item_code |-> "ITEM-A",
                             purchase_receipt_item |-> "row-1",
                             receipt_document |-> ThisReceipt,
                             qty |-> 1, amount |-> 100,
                             applicable_charges |-> amount ] >>,
              taxes |-> << [ expense_account |-> "Freight - C",
                             amount |-> amount - 3, base_amount |-> amount - 3 ],
                           [ expense_account |-> "Customs - C",
                             amount |-> 3, base_amount |-> 3 ] >> ] >>

\* the invoice PINV-1 a receipt row can be made from, billed at another
\* exchange rate; PINV-2, when there, is a submitted invoice of another
\* receipt
GLInvoices ==
    << [ name |-> "PII-1", parent |-> "PINV-1", docstatus |-> 1,
         amount |-> 100, qty |-> 1, po_detail |-> "", pr_detail |-> "",
         purchase_receipt |-> "", conversion_rate |-> 2, net_rate |-> 100,
         booked_expenses_included_in_valuation |-> FALSE ] >>

\* a submitted invoice of the receipt whose entries credit the expenses
\* included in valuation: what the query of make_tax_gl_entries looks for
GLBooked ==
    << [ name |-> "PII-2", parent |-> "PINV-2", docstatus |-> 1,
         amount |-> 0, qty |-> 0, po_detail |-> "", pr_detail |-> "",
         purchase_receipt |-> ThisReceipt, conversion_rate |-> 1, net_rate |-> 0,
         booked_expenses_included_in_valuation |-> TRUE ] >>

\* the assets the receipt's fixed-asset rows created, and one of another
\* receipt
GLAssets ==
    << [ name |-> "AST-1", purchase_receipt |-> ThisReceipt,
         item_code |-> "ASSET-M", gross_purchase_amount |-> 50,
         purchase_receipt_amount |-> 50 ],
       [ name |-> "AST-2", purchase_receipt |-> ThisReceipt,
         item_code |-> "ASSET-F", gross_purchase_amount |-> 50,
         purchase_receipt_amount |-> 50 ],
       [ name |-> "AST-3", purchase_receipt |-> OtherReceipt,
         item_code |-> "ASSET-M", gross_purchase_amount |-> 50,
         purchase_receipt_amount |-> 50 ] >>

InitGLCommon ==
    /\ phase = "draft"
    /\ qi = [q \in {} |-> 0]
    /\ receipts = NoReceipts /\ others = <<>>
    /\ sle = NoSle
    /\ gl_entries = <<>> /\ target = NoTarget /\ returned = <<>>
    /\ err = NoErr
    /\ calls = <<>>

InitGLStock ==
    /\ InitGLCommon
    /\ doc \in {[ReceiptDoc EXCEPT !.supplier_warehouse = w]
                  : w \in {"", "Supplier WH", "Transit", "Stores"}}
               \cup {[ReceiptDoc EXCEPT !.is_return = 1]}
    /\ items \in {Named(<<d>>) : d \in GLStockRows}
    /\ taxes \in {NamedTaxes(GLTaxes[k]) : k \in 1..3}
    /\ settings = Settings
    /\ pinv \in {<<>>, GLBooked} /\ assets = <<>>
    /\ lcv = LandedCost(items[1].landed_cost_voucher_amount)

InitGLMixed ==
    /\ InitGLCommon
    /\ doc = ReceiptDoc
    /\ items \in {Named(rows) : rows \in NonEmptySeqsUpTo(GLMixedRows, MaxGLRows)}
    /\ taxes \in {NamedTaxes(GLTaxes[k]) : k \in DOMAIN GLTaxes}
    /\ settings \in {[Settings EXCEPT
                         !.enable_provisional_accounting_for_non_stock_items = e]
                       : e \in {0, 1}}
    /\ pinv = GLInvoices /\ assets = GLAssets
    /\ lcv = <<>>

InitGLTransfer ==
    /\ InitGLCommon
    /\ doc = [ReceiptDoc EXCEPT !.is_internal_transfer = TRUE]
    /\ items \in {Named(<<[d EXCEPT !.from_warehouse = "Transit"]>>)
                    : d \in {x \in GLStockRows : x.rm_supp_cost = 0}}
    /\ taxes \in {NamedTaxes(GLTaxes[k]) : k \in 1..2}
    /\ settings \in {Settings, [Settings EXCEPT !.default_expense_account = ""]}
    /\ pinv = <<>> /\ assets = <<>>
    /\ lcv = LandedCost(items[1].landed_cost_voucher_amount)

InitGL == InitGLStock \/ InitGLMixed \/ InitGLTransfer

NextGL == validate \/ on_submit \/ reverse_provisional_gl_entry

SpecGL == InitGL /\ [][NextGL]_vars

----------------------------------------------------------------------------
(* Claims about the general-ledger entries *)

\* the entries posted for one row of the receipt or of its Taxes table
EntriesFor(name) == SelectSeq(gl_entries, LAMBDA e : e.voucher_detail_no = name)

TotalDebit == FSum([i \in DOMAIN gl_entries |-> gl_entries[i].debit])

TotalCredit == FSum([i \in DOMAIN gl_entries |-> gl_entries[i].credit])

\* C1: the entries get_gl_entries builds for a submitted receipt are balanced:
\* the debits sum to the credits, a negative debit counting as a credit.
C1_Balanced ==
    phase = "submitted" => TotalDebit = TotalCredit

\* the rows that are neither stock items nor fixed assets
ServiceRows ==
    {i \in DOMAIN items :
        items[i].item_code \notin stock_items /\ items[i].is_fixed_asset = 0}

\* an entry as the claims describe it
Posting(account, cost_center, debit, credit, row) ==
    [ account |-> account, cost_center |-> cost_center,
      debit |-> [n |-> debit, d |-> 1], credit |-> [n |-> credit, d |-> 1],
      voucher_detail_no |-> row ]

\* C9: for a row that is neither a stock item nor a fixed asset, the entries
\* of a submitted receipt are a credit of the row's amount to its provisional
\* account and a debit of the same amount to its expense account when the qty
\* is not 0, the company enables provisional accounting for non-stock items
\* and the row has a provisional expense account, and none otherwise; called
\* with reverse, add_provisional_gl_entry posts the same two entries with the
\* amounts negated.
C9_Provisional ==
    /\ phase = "submitted" =>
        \A i \in ServiceRows :
            LET d == items[i]
            IN  IF /\ d.qty # 0
                   /\ settings.enable_provisional_accounting_for_non_stock_items # 0
                   /\ d.provisional_expense_account # ""
                THEN EntriesFor(d.name) =
                        << Posting(d.provisional_expense_account, d.cost_center,
                                   0, d.amount, d.name),
                           Posting(d.expense_account, d.cost_center,
                                   d.amount, 0, d.name) >>
                ELSE EntriesFor(d.name) = <<>>
    /\ phase = "provisional_reversed" =>
        \E i \in ServiceRows :
            LET d == items[i]
                billed == calls[1].arg.amount
            IN  /\ calls[1].arg.pr_detail = d.name
                /\ gl_entries =
                        << Posting(d.provisional_expense_account, d.cost_center,
                                   0, -billed, "PII-9"),
                           Posting(d.expense_account, d.cost_center,
                                   -billed, 0, "PII-9") >>

\* a submitted receipt with a service row that got its two entries beside a
\* stock row's, and a reversal of a part of the amount
C9_Witness ==
    \/ /\ phase = "submitted" /\ Len(items) = 2
       /\ items[1].item_code \in stock_items
       /\ 2 \in ServiceRows /\ Len(EntriesFor(items[2].name)) = 2
       /\ EntriesFor(items[1].name) # <<>>
    \/ /\ phase = "provisional_reversed"
       /\ gl_entries[1].credit = [n |-> -39, d |-> 1]

FixedAssetRows == {i \in DOMAIN items : items[i].is_fixed_asset # 0}

AssetAccounts ==
    { settings.asset_received_but_not_billed,
      settings.expenses_included_in_asset_valuation,
      settings.capital_work_in_progress_account }
    \cup {settings.category_cwip_account[c] : c \in DOMAIN settings.category_cwip_account}
    \cup {settings.fixed_asset_account[c] : c \in DOMAIN settings.fixed_asset_account}

\* the fixed-asset rows that update the assets of an item code
UpdatingRows(code) ==
    {i \in FixedAssetRows :
        items[i].item_code = code /\ items[i].landed_cost_voucher_amount # 0}

\* C10: in a submitted receipt a fixed-asset row whose category has
\* capital-work-in-progress accounting gets a debit to the CWIP account (the
\* category's, else the company's) and an equal credit to asset received but
\* not billed, of base net amount plus item tax amount; a fixed-asset row with
\* a landed cost gets a credit of it to expenses included in asset valuation
\* and an equal debit to the fixed asset account (the company's CWIP account
\* under CWIP accounting), and the assets of the receipt and the row's item
\* code get the row's valuation rate as gross_purchase_amount and
\* purchase_receipt_amount (the last such row's, where several share an item
\* code); other rows get no entry on an asset account and no other asset
\* changes.
C10_AssetEntries ==
    phase = "submitted" =>
        /\ \A i \in FixedAssetRows :
            LET d == items[i]
                cwip == d.asset_category \in settings.cwip_categories
                cwip_account ==
                    IF settings.category_cwip_account[d.asset_category] # ""
                    THEN settings.category_cwip_account[d.asset_category]
                    ELSE settings.capital_work_in_progress_account
                amount == d.base_net_amount + d.item_tax_amount
                landed == d.landed_cost_voucher_amount
            IN  EntriesFor(d.name) =
                    (IF cwip
                     THEN << Posting(cwip_account, d.cost_center, amount, 0, d.name),
                             Posting(settings.asset_received_but_not_billed,
                                     d.cost_center, 0, amount, d.name) >>
                     ELSE <<>>)
                    \o (IF landed # 0
                        THEN << Posting(settings.expenses_included_in_asset_valuation,
                                        d.cost_center, 0, landed, d.name),
                                Posting(IF cwip
                                        THEN settings.capital_work_in_progress_account
                                        ELSE settings.fixed_asset_account[d.asset_category],
                                        d.cost_center, landed, 0, d.name) >>
                        ELSE <<>>)
        /\ \A i \in DOMAIN items \ FixedAssetRows :
            \A k \in DOMAIN gl_entries :
                gl_entries[k].voucher_detail_no = items[i].name
                    => gl_entries[k].account \notin AssetAccounts
        /\ \A k \in DOMAIN assets :
            LET rows == UpdatingRows(assets[k].item_code)
                value == IF assets[k].purchase_receipt = doc.name /\ rows # {}
                         THEN items[CHOOSE i \in rows : \A j \in rows : j <= i]
                                  .valuation_rate
                         ELSE 50
            IN  /\ assets[k].gross_purchase_amount = value
                /\ assets[k].purchase_receipt_amount = value

\* a submitted receipt with a CWIP asset carrying tax and landed cost, whose
\* asset was revalued while the other receipt's asset was not
C10_Witness ==
    /\ phase = "submitted"
    /\ \E i \in FixedAssetRows :
        /\ items[i].item_tax_amount # 0
        /\ items[i].landed_cost_voucher_amount # 0
        /\ Len(EntriesFor(items[i].name)) = 4
    /\ DOMAIN items # FixedAssetRows
    /\ assets[1].gross_purchase_amount = 520
    /\ assets[3].gross_purchase_amount = 50

----------------------------------------------------------------------------
(* The life of a receipt: validated, submitted, invoiced, cancelled *)

\* rows of a receipt in the life-cycle scenarios
MaxLifecycleRows == 1

LifecycleRows ==
    { Valued(StockRow),
      Valued([StockRow EXCEPT !.purchase_order = "PO-1",
                              !.purchase_order_item = "POI-1"]),
      ServiceRow }

\* no invoice yet, or one made from the purchase order before the goods came
LifecycleInvoices ==
    { <<>>,
      << [ name |-> "PII-1", parent |-> "PINV-1", docstatus |-> 1,
           amount |-> 60, qty |-> 1, po_detail |-> "POI-1", pr_detail |-> "",
           purchase_receipt |-> "", conversion_rate |-> 1, net_rate |-> 60,
           booked_expenses_included_in_valuation |-> FALSE ] >> }

InitLifecycle ==
    /\ InitGLCommon
    /\ doc \in {[ReceiptDoc EXCEPT !.per_billed = [n |-> b, d |-> 1]]
                  : b \in {0, 100}}
    /\ items \in {Named(rows)
                    : rows \in NonEmptySeqsUpTo(LifecycleRows, MaxLifecycleRows)}
    /\ taxes \in {NamedTaxes(GLTaxes[k]) : k \in {1, 4}}
    /\ settings = Settings
    /\ pinv \in LifecycleInvoices
    /\ assets = <<>> /\ lcv = <<>>

NextLifecycle ==
    \/ validate
    \/ on_submit
    \/ make_purchase_invoice_call
    \/ insert_purchase_invoice
    \/ submit_purchase_invoice
    \/ cancel_purchase_invoice
    \/ check_next_docstatus_call
    \/ on_cancel

SpecLifecycle == InitLifecycle /\ [][NextLifecycle]_vars

----------------------------------------------------------------------------
(* Claims about the hooks *)

Called(fn) == \E i \in DOMAIN calls : calls[i].fn = fn

\* every call of fn in the log comes after a call of one of the functions before
After(fn, before) ==
    \A i \in DOMAIN calls :
        calls[i].fn = fn => \E j \in 1..(i - 1) : calls[j].fn \in before

CancelSteps ==
    { "update_prevdoc_status", "update_billing_status", "update_stock_ledger",
      "make_gl_entries_on_cancel", "delete_auto_created_batches" }

\* the submitted Purchase Invoices with an item that names this receipt
InvoicesOfReceipt ==
    {pinv[i].parent : i \in {j \in DOMAIN pinv :
        pinv[j].purchase_receipt = doc.name /\ pinv[j].docstatus = 1}}

\* C4: on_cancel fails with 'Purchase Invoice {0} is already submitted' when a
\* submitted Purchase Invoice has an item referencing the receipt, and then
\* runs none of update_prevdoc_status, update_billing_status,
\* update_stock_ledger, make_gl_entries_on_cancel and
\* delete_auto_created_batches; with no such invoice it runs them all.
C4_CancelGuard ==
    phase \in {"cancelled", "cancel_failed"} =>
        IF InvoicesOfReceipt # {}
        THEN /\ phase = "cancel_failed"
             /\ err.msg = MsgAlreadySubmitted
             /\ err.arg \in InvoicesOfReceipt
             /\ \A fn \in CancelSteps : ~Called(fn)
             /\ doc.docstatus = 1 /\ sle # NoSle
        ELSE /\ phase = "cancelled"
             /\ err = NoErr
             /\ \A fn \in CancelSteps : Called(fn)
             /\ doc.docstatus = 2

\* a cancellation refused for a submitted invoice, and one that went through
\* beside an invoice that was cancelled before
C4_Witness ==
    \/ phase = "cancel_failed" /\ err = Err(MsgAlreadySubmitted, "PINV-2")
    \/ /\ phase = "cancelled"
       /\ \E i \in DOMAIN pinv :
              pinv[i].purchase_receipt = doc.name /\ pinv[i].docstatus = 2

\* C5: in on_submit and in on_cancel update_stock_ledger is called only after
\* update_prevdoc_status, the entries are made or reversed only after
\* update_stock_ledger, and repost_future_sle_and_gle only after them; a hook
\* that ends without error has made all four calls.
C5_CallOrder ==
    phase \in {"submitted", "submit_failed", "cancelled", "cancel_failed"} =>
        /\ After("update_stock_ledger", {"update_prevdoc_status"})
        /\ After("make_gl_entries", {"update_stock_ledger"})
        /\ After("make_gl_entries_on_cancel", {"update_stock_ledger"})
        /\ After("repost_future_sle_and_gle",
                 {"make_gl_entries", "make_gl_entries_on_cancel"})
        /\ phase = "submitted" =>
              Called("make_gl_entries") /\ Called("repost_future_sle_and_gle")
        /\ phase = "cancelled" =>
              Called("make_gl_entries_on_cancel")
              /\ Called("repost_future_sle_and_gle")

\* a receipt cancelled after its submission, the stock ledger updated between
\* the status of the previous documents and the reversal of the entries
C5_Witness ==
    /\ phase = "cancelled"
    /\ \E i, j, k \in DOMAIN calls :
        /\ i < j /\ j < k
        /\ calls[i].fn = "update_prevdoc_status"
        /\ calls[j].fn = "update_stock_ledger"
        /\ calls[k].fn = "make_gl_entries_on_cancel"

----------------------------------------------------------------------------
(* The billing scenarios: a submitted receipt beside another receipt of the *)
(* same purchase order and returns made against it, with invoices that bill *)
(* the purchase order or the receipt's rows directly.  The module's         *)
(* functions are called as the Purchase Invoice calls them.                 *)

\* update_billed_amount_based_on_po(po_details): the billed amounts go to the
\* rows of this receipt and of the others
update_billed_amount_based_on_po_call ==
    /\ \E po_details \in (SUBSET {"POI-1", "POI-2"}) \ {{}} :
        LET rows == pr_table(doc, items, receipts, others)
            out == update_billed_amount_based_on_po(rows, po_details, pinv)
        IN  /\ items' = [i \in DOMAIN items |->
                            [items[i] EXCEPT !.billed_amt = out.rows[i].billed_amt]]
            /\ others' = [i \in DOMAIN others |->
                            [others[i] EXCEPT !.billed_amt =
                                out.rows[Len(items) + i].billed_amt]]
            /\ calls' = <<CallFor("update_billed_amount_based_on_po", po_details)>>
    /\ phase' = "po_billed"
    /\ err' = NoErr
    /\ UNCHANGED <<doc, taxes, settings, qi, receipts, pinv, sle, assets, lcv,
                   gl_entries, target, returned>>

\* update_billing_percentage with adjust_incoming_rate: each row's
\* rate_difference_with_purchase_invoice is its billed amount less its
\* amount, 0 when either is 0
rate_difference(its) ==
    [i \in DOMAIN its |->
        [its[i] EXCEPT !.rate_difference_with_purchase_invoice =
            IF its[i].billed_amt # 0 /\ its[i].amount # 0
            THEN its[i].billed_amt - its[i].amount ELSE 0]]

\* doc.update_valuation_rate(reset_outgoing_rate=False): the buying
\* controller gives each row the valuation of one unit
update_valuation_rate(its) ==
    [i \in DOMAIN its |->
        IF its[i].qty = 0 THEN its[i]
        ELSE [its[i] EXCEPT !.valuation_rate =
                (its[i].base_net_amount + its[i].landed_cost_voucher_amount
                 + its[i].rm_supp_cost + its[i].item_tax_amount
                 + its[i].rate_difference_with_purchase_invoice)
                \div its[i].qty]]

\* the docstatus as the log shows it
DocstatusName(n) == <<"0", "1", "2">>[n + 1]

adjust_incoming_rate_steps_repost_first ==
    << "update_valuation_rate", "db_update",
       "docstatus=1", "update_stock_ledger", "make_gl_entries",
       "docstatus=2", "update_stock_ledger", "make_gl_entries_on_cancel",
       "repost_future_sle_and_gle" >>

\* the statements of adjust_incoming_rate_for_pr in their order
adjust_incoming_rate_steps ==
    << "update_valuation_rate", "db_update",
       "docstatus=2", "update_stock_ledger", "make_gl_entries_on_cancel",
       "docstatus=1", "update_stock_ledger", "make_gl_entries",
       "repost_future_sle_and_gle" >>

\* one statement of adjust_incoming_rate_for_pr on st = [docstatus, sle,
\* gl_entries, assets, calls, err].  A cancelled document's ledger update and
\* entries reverse what is posted, a submitted document's write the entries
\* sl and those of g; the log keeps the docstatus each call saw.
adjust_incoming_rate_step(st, step, sl, g) ==
    LET logged == [st EXCEPT !.calls =
                      Append(@, CallFor(step, DocstatusName(st.docstatus)))]
    IN  CASE step = "docstatus=2" -> [st EXCEPT !.docstatus = 2]
          [] step = "docstatus=1" -> [st EXCEPT !.docstatus = 1]
          [] step = "update_stock_ledger" ->
                [logged EXCEPT !.sle = IF st.docstatus = 2 THEN NoSle ELSE sl]
          [] step = "make_gl_entries_on_cancel" ->
                [logged EXCEPT !.gl_entries = <<>>]
          [] step = "make_gl_entries" ->
                IF st.docstatus = 2 THEN [logged EXCEPT !.gl_entries = <<>>]
                ELSE IF g.err # NoErr THEN [logged EXCEPT !.err = g.err]
                ELSE [logged EXCEPT !.gl_entries = @ \o g.entries,
                                    !.assets = g.assets]
          [] OTHER -> logged

RECURSIVE adjust_incoming_rate_run(_, _, _, _)
\* the statements from the k-th on; a throw ends the function
adjust_incoming_rate_run(st, k, sl, g) ==
    IF k > Len(adjust_incoming_rate_steps) \/ st.err # NoErr THEN st
    ELSE adjust_incoming_rate_run(
             adjust_incoming_rate_step(st, adjust_incoming_rate_steps[k], sl, g),
             k + 1, sl, g)

\* adjust_incoming_rate_for_pr(doc): [docstatus, sle, gl_entries, assets,
\* calls, err] when it returns or throws; its are the rows with the new
\* valuation rates, sl the entries update_stock_ledger writes for them
adjust_incoming_rate_for_pr(dc, its, sl, tx, s, lc, pv, as, gl) ==
    adjust_incoming_rate_run(
        [ docstatus |-> dc.docstatus, sle |-> sl, gl_entries |-> gl,
          assets |-> as, calls |-> <<>>, err |-> NoErr ],
        1, sl,
        get_gl_entries(its, tx, [dc EXCEPT !.docstatus = 1], s, sl, lc, pv, as))

\* update_billing_percentage(pr_doc, adjust_incoming_rate) for this receipt
\* or another one.  The incoming rate is adjusted for this receipt once it
\* has its ledger: the ledgers of the other receipts are not in the state.
update_billing_percentage_call ==
    /\ \E pr \in {doc.name} \cup DOMAIN receipts, adjust_incoming_rate \in BOOLEAN :
        /\ adjust_incoming_rate =>
              pr = doc.name /\ doc.docstatus = 1 /\ sle # NoSle
        /\ LET percent_billed ==
                   update_billing_percentage(
                       pr_table(doc, items, receipts, others), pr)
               dc1 == IF pr = doc.name
                      THEN [doc EXCEPT !.per_billed = percent_billed] ELSE doc
               its1 == update_valuation_rate(rate_difference(items))
               first == <<CallFor("update_billing_percentage", pr)>>
           IN  IF ~adjust_incoming_rate
               THEN /\ doc' = dc1
                    /\ receipts' = IF pr = doc.name THEN receipts
                                   ELSE [receipts EXCEPT
                                            ![pr].per_billed = percent_billed]
                    /\ calls' = first
                    /\ phase' = "percentage_updated"
                    /\ err' = NoErr
                    /\ UNCHANGED <<items, sle, assets, gl_entries>>
               ELSE \E sl \in SleWritten(its1, dc1) :
                    LET a == adjust_incoming_rate_for_pr(
                                 dc1, its1, sl, taxes, settings, lcv, pinv,
                                 assets, gl_entries)
                    IN  /\ calls' = first \o a.calls
                        /\ err' = a.err
                        /\ receipts' = receipts
                        /\ IF a.err # NoErr
                           THEN /\ phase' = "adjust_failed"
                                /\ UNCHANGED <<doc, items, sle, assets,
                                               gl_entries>>
                           ELSE /\ phase' = "rate_adjusted"
                                /\ doc' = [dc1 EXCEPT !.docstatus = a.docstatus]
                                /\ items' = its1
                                /\ sle' = a.sle
                                /\ assets' = a.assets
                                /\ gl_entries' = a.gl_entries
    /\ UNCHANGED <<taxes, settings, qi, others, pinv, lcv, target, returned>>

\* rows of the receipt in the billing scenarios
MaxBillingRows == 1

BillingRow ==
    [ItemRow EXCEPT !.qty = 2, !.received_qty = 2, !.rate = 10, !.net_rate = 10,
                    !.amount = 20, !.net_amount = 20, !.base_net_amount = 20,
                    !.valuation_rate = 10]

\* a row of the purchase order item POI-1, the same with a billed amount left
\* from an invoice since cancelled, a row of POI-2 and one without an order
BillingRows ==
    { [BillingRow EXCEPT !.purchase_order = "PO-1",
                         !.purchase_order_item = "POI-1"],
      [BillingRow EXCEPT !.purchase_order = "PO-1",
                         !.purchase_order_item = "POI-1", !.billed_amt = 5],
      [BillingRow EXCEPT !.purchase_order = "PO-1",
                         !.purchase_order_item = "POI-2",
                         !.qty = 3, !.received_qty = 3, !.rate = 7,
                         !.net_rate = 7, !.amount = 21,
                         !.net_amount = 21, !.base_net_amount = 21],
      BillingRow }

StoredReceipt ==
    [ docstatus |-> 1, is_return |-> 0, posting |-> 2, return_against |-> "",
      per_billed |-> [n |-> 0, d |-> 1] ]

ReturnReceipt ==
    [StoredReceipt EXCEPT !.is_return = 1, !.posting = 3,
                          !.return_against = ThisReceipt]

OtherRow ==
    [ name |-> "o-1", parent |-> OtherReceipt, idx |-> 1,
      purchase_receipt_item |-> "", purchase_order_item |-> "POI-1",
      qty |-> 3, rate |-> 10, amount |-> 30, billed_amt |-> 0 ]

\* a row of a return made against row-1 of this receipt
ReturnRow(name, parent, qty) ==
    [OtherRow EXCEPT !.name = name, !.parent = parent,
                     !.purchase_receipt_item = "row-1",
                     !.qty = -qty, !.amount = -qty * 10]

\* the returns against row-1: none, one unit, one unit twice, more than the
\* row holds, and a return that is still a draft
BillingReturns ==
    << [rc |-> [r \in {} |-> StoredReceipt], rows |-> <<>>],
       [rc |-> [r \in {"PR-3"} |-> ReturnReceipt],
        rows |-> <<ReturnRow("o-2", "PR-3", 1)>>],
       [rc |-> [r \in {"PR-3", "PR-4"} |-> ReturnReceipt],
        rows |-> <<ReturnRow("o-2", "PR-3", 1), ReturnRow("o-3", "PR-4", 1)>>],
       [rc |-> [r \in {"PR-3"} |-> ReturnReceipt],
        rows |-> <<ReturnRow("o-2", "PR-3", 3)>>],
       [rc |-> [r \in {"PR-3"} |-> [ReturnReceipt EXCEPT !.docstatus = 0]],
        rows |-> <<ReturnRow("o-2", "PR-3", 1)>>] >>

InvoiceRow ==
    [ name |-> "", parent |-> "", docstatus |-> 1, amount |-> 0, qty |-> 1,
      po_detail |-> "", pr_detail |-> "", purchase_receipt |-> "",
      conversion_rate |-> 1, net_rate |-> 10,
      booked_expenses_included_in_valuation |-> FALSE ]

\* the invoices made from the purchase order, before any receipt
OrderInvoices ==
    { <<>>,
      << [InvoiceRow EXCEPT !.parent = "PINV-1", !.po_detail = "POI-1",
                            !.amount = 10] >>,
      << [InvoiceRow EXCEPT !.parent = "PINV-1", !.po_detail = "POI-1",
                            !.amount = 40] >>,
      << [InvoiceRow EXCEPT !.parent = "PINV-1", !.po_detail = "POI-1",
                            !.amount = 60],
         [InvoiceRow EXCEPT !.parent = "PINV-1", !.po_detail = "POI-2",
                            !.amount = 12] >> }

\* the invoices made from this receipt's first row: none, a part of it
\* submitted, and the same still a draft
ReceiptInvoices ==
    { <<>>,
      << [InvoiceRow EXCEPT !.parent = "PINV-2", !.pr_detail = "row-1",
                            !.purchase_receipt = ThisReceipt,
                            !.po_detail = "POI-1", !.amount = 5] >>,
      << [InvoiceRow EXCEPT !.parent = "PINV-2", !.pr_detail = "row-1",
                            !.purchase_receipt = ThisReceipt,
                            !.po_detail = "POI-1", !.amount = 5,
                            !.docstatus = 0] >> }

NamedInvoices(pv) == [i \in DOMAIN pv |-> [pv[i] EXCEPT !.name = ItemName(i)]]

\* a receipt read from the database: submitted in an earlier session
InitStored ==
    /\ phase = "stored"
    /\ taxes = <<>>
    /\ settings \in {[Settings EXCEPT
                        !.bill_for_rejected_quantity_in_purchase_invoice = b]
                       : b \in {0, 1}}
    /\ qi = [q \in {} |-> 0]
    /\ sle = NoSle /\ assets = <<>> /\ lcv = <<>>
    /\ gl_entries = <<>> /\ target = NoTarget /\ returned = <<>>
    /\ err = NoErr
    /\ calls = <<>>

InitBilling ==
    /\ InitStored
    /\ settings.bill_for_rejected_quantity_in_purchase_invoice = 0
    /\ doc = [ReceiptDoc EXCEPT !.docstatus = 1]
    /\ items \in {Named(rows)
                    : rows \in NonEmptySeqsUpTo(BillingRows, MaxBillingRows)}
    /\ \E k \in DOMAIN BillingReturns, p \in {1, 2} :
        /\ receipts = [r \in {OtherReceipt} \cup DOMAIN BillingReturns[k].rc |->
                          IF r = OtherReceipt
                          THEN [StoredReceipt EXCEPT !.posting = p]
                          ELSE BillingReturns[k].rc[r]]
        /\ others = <<OtherRow>> \o BillingReturns[k].rows
    /\ pinv \in {NamedInvoices(a \o b) : a \in OrderInvoices, b \in ReceiptInvoices}

NextBilling ==
    update_billed_amount_based_on_po_call \/ update_billing_percentage_call

SpecBilling == InitBilling /\ [][NextBilling]_vars

----------------------------------------------------------------------------
(* Claims about the billing status *)

\* the rows of all receipts, each with its receipt's fields
AllRows == pr_table(doc, items, receipts, others)

RowsOf(pr) == {i \in DOMAIN AllRows : AllRows[i].parent = pr}

RECURSIVE Total(_, _)
\* the sum of f over the indices S
Total(f, S) ==
    IF S = {} THEN 0
    ELSE LET i == CHOOSE j \in S : TRUE IN f[i] + Total(f, S \ {i})

\* the quantity returned against a row by submitted return receipts
ReturnedQty(name) ==
    Total([i \in DOMAIN AllRows |-> Abs(AllRows[i].qty)],
          {i \in DOMAIN AllRows :
              /\ AllRows[i].is_return = 1 /\ AllRows[i].docstatus = 1
              /\ AllRows[i].purchase_receipt_item = name})

BillableAmount(r) ==
    LET pending == r.amount - ReturnedQty(r.name) * r.rate
    IN  IF r.billed_amt > pending THEN r.billed_amt ELSE pending

\* the per_billed of a receipt, in millionths of a percent
PerBilledMillionths(pr) ==
    LET p == IF pr = doc.name THEN doc.per_billed ELSE receipts[pr].per_billed
    IN  IF PercentScale % p.d = 0 THEN p.n * (PercentScale \div p.d) ELSE -1

\* C6: update_billing_percentage sets per_billed to 100 x total billed amount
\* / total billable amount, to the sixth decimal: the totals are over the
\* rows of the receipt, a row's billable amount is its amount less the
\* quantity submitted returns brought back times its rate, or its billed
\* amount when that is more, and a total billable amount of 0 divides as 1.
C6_PerBilled ==
    phase = "percentage_updated" =>
        LET pr == calls[1].arg
            billed == Total([i \in DOMAIN AllRows |-> AllRows[i].billed_amt],
                            RowsOf(pr))
            billable == Total([i \in DOMAIN AllRows |-> BillableAmount(AllRows[i])],
                              RowsOf(pr))
            divisor == IF billable = 0 THEN 1 ELSE billable
            whole == (100 * billed) \div divisor
            rest == (100 * billed) % divisor
            millionths == PerBilledMillionths(pr) - whole * PercentScale
        IN  /\ PerBilledMillionths(pr) >= 0
            /\ Abs(millionths * divisor - rest * PercentScale) <= divisor \div 2

\* C6 as the specification words it: per_billed is the quotient itself
C6_Exact ==
    phase = "percentage_updated" =>
        LET pr == calls[1].arg
            billed == Total([i \in DOMAIN AllRows |-> AllRows[i].billed_amt],
                            RowsOf(pr))
            billable == Total([i \in DOMAIN AllRows |-> BillableAmount(AllRows[i])],
                              RowsOf(pr))
            divisor == IF billable = 0 THEN 1 ELSE billable
            p == IF pr = doc.name THEN doc.per_billed ELSE receipts[pr].per_billed
        IN  p.n * divisor = 100 * billed * p.d

\* a percentage that is no whole number, of a receipt with a returned unit
\* and a billed amount
C6_Witness ==
    /\ phase = "percentage_updated" /\ calls[1].arg = doc.name
    /\ doc.per_billed.d > 1
    /\ ReturnedQty("row-1") > 0
    /\ \E i \in DOMAIN items : items[i].billed_amt > 0

\* the submitted, non-return rows of a purchase order item
RowsOfOrderItem(po) ==
    {i \in DOMAIN AllRows :
        /\ AllRows[i].purchase_order_item = po
        /\ AllRows[i].docstatus = 1 /\ AllRows[i].is_return = 0}

\* first in, first out: by posting date and time, then by receipt name
Earlier(a, b) ==
    \/ a.posting < b.posting
    \/ a.posting = b.posting /\ a.parent # b.parent
         /\ \E m, n \in DOMAIN ReceiptNames :
                m < n /\ ReceiptNames[m] = a.parent /\ ReceiptNames[n] = b.parent
    \/ a.parent = b.parent /\ a.idx < b.idx

\* billed by submitted invoices directly against a receipt row
DirectlyBilled(name) ==
    Total([i \in DOMAIN pinv |-> pinv[i].amount],
          {i \in DOMAIN pinv : pinv[i].docstatus = 1 /\ pinv[i].pr_detail = name})

\* billed by submitted invoices against a purchase order item and no receipt
OrderBilled(po) ==
    Total([i \in DOMAIN pinv |-> pinv[i].amount],
          {i \in DOMAIN pinv :
              /\ pinv[i].docstatus = 1 /\ pinv[i].po_detail = po
              /\ pinv[i].pr_detail = ""})

\* what a row still takes beyond what is billed directly against it
Room(r) ==
    IF DirectlyBilled(r.name) < r.amount
    THEN r.amount - DirectlyBilled(r.name) ELSE 0

\* C7: after update_billed_amount_based_on_po the billed amount of each
\* submitted, non-return receipt row of a purchase order item it was called
\* for is what is billed directly against the row plus its share of the
\* amount billed against the purchase order item: what the earlier rows, by
\* posting time and then receipt name, have left of it, up to what the row
\* needs to reach its amount; together the rows get no more than was billed
\* against the purchase order item.
C7_Fifo ==
    phase = "po_billed" =>
        \A po \in calls[1].arg :
            /\ \A i \in RowsOfOrderItem(po) :
                LET r == AllRows[i]
                    before == {j \in RowsOfOrderItem(po) : Earlier(AllRows[j], r)}
                    taken == Total([j \in DOMAIN AllRows |-> Room(AllRows[j])],
                                   before)
                    left == IF OrderBilled(po) > taken
                            THEN OrderBilled(po) - taken ELSE 0
                IN  r.billed_amt = DirectlyBilled(r.name)
                                   + (IF Room(r) <= left THEN Room(r) ELSE left)
            /\ Total([j \in DOMAIN AllRows |->
                         AllRows[j].billed_amt - DirectlyBilled(AllRows[j].name)],
                     RowsOfOrderItem(po)) <= OrderBilled(po)

\* the other receipt came first and is billed in full, this receipt's row gets
\* the rest beside what an invoice bills it directly
C7_Witness ==
    /\ phase = "po_billed" /\ "POI-1" \in calls[1].arg
    /\ receipts[OtherReceipt].posting < doc.posting
    /\ others[1].billed_amt = others[1].amount
    /\ items[1].purchase_order_item = "POI-1"
    /\ DirectlyBilled("row-1") > 0
    /\ items[1].billed_amt > DirectlyBilled("row-1")
    /\ items[1].billed_amt < items[1].amount

----------------------------------------------------------------------------
(* The invoicing scenarios: a stored receipt, with what was accepted and    *)
(* rejected of each row, the invoices already made from it and the returns  *)
(* against its first row                                                    *)

\* rows of the receipt in the invoicing scenarios
MaxInvoiceRows == 2

\* two units accepted of three received, one of one, and one row from a
\* purchase order
InvoiceRows ==
    { [BillingRow EXCEPT !.received_qty = 3],
      [BillingRow EXCEPT !.qty = 1, !.received_qty = 1, !.amount = 10,
                         !.net_amount = 10, !.base_net_amount = 10,
                         !.item_code = "ITEM-B"],
      [BillingRow EXCEPT !.purchase_order = "PO-1",
                         !.purchase_order_item = "POI-1"] }

\* the invoices already made from the first row: none, one unit submitted,
\* two units submitted, one unit in a draft
EarlierInvoices ==
    {<<>>} \cup
    { << [InvoiceRow EXCEPT !.parent = "PINV-1", !.pr_detail = "row-1",
                            !.purchase_receipt = ThisReceipt,
                            !.qty = q, !.amount = 10 * q, !.docstatus = ds] >>
        : q \in {1, 2}, ds \in {0, 1} }

InitInvoice ==
    /\ InitStored
    /\ doc \in {[ReceiptDoc EXCEPT !.docstatus = ds] : ds \in {0, 1, 2}}
    /\ items \in {Named(rows)
                    : rows \in NonEmptySeqsUpTo(InvoiceRows, MaxInvoiceRows)}
    /\ \E k \in DOMAIN BillingReturns :
        /\ doc.docstatus = 0 => k = 1
        /\ receipts = BillingReturns[k].rc
        /\ others = BillingReturns[k].rows
    /\ pinv \in {NamedInvoices(a) : a \in EarlierInvoices}
    /\ doc.docstatus = 0 => pinv = <<>>
    /\ doc.docstatus = 2 => submitted_invoices(pinv, doc) = {}

NextInvoice ==
    \/ make_purchase_invoice_call
    \/ insert_purchase_invoice
    \/ submit_purchase_invoice
    \/ cancel_purchase_invoice

SpecInvoice == InitInvoice /\ [][NextInvoice]_vars

----------------------------------------------------------------------------
(* Claims about make_purchase_invoice *)

Mapping == phase \in {"mapped", "map_failed", "nothing_to_map"}

\* the quantity submitted invoices have billed of a row of this receipt
InvoicedQty(name) ==
    Total([i \in DOMAIN pinv |-> pinv[i].qty],
          {i \in DOMAIN pinv :
              /\ pinv[i].docstatus = 1 /\ pinv[i].purchase_receipt = doc.name
              /\ pinv[i].pr_detail = name})

\* accepted (or received) less invoiced less returned, never below 0
PendingQty(d) ==
    LET qty == IF settings.bill_for_rejected_quantity_in_purchase_invoice # 0
               THEN d.received_qty ELSE d.qty
        left == qty - InvoicedQty(d.name) - ReturnedQty(d.name)
    IN  IF left > 0 THEN left ELSE 0

RECURSIVE PendingRows(_)
\* the rows from the n-th on with a positive pending quantity, in order
PendingRows(n) ==
    IF n > Len(items) THEN <<>>
    ELSE (IF PendingQty(items[n]) > 0 THEN <<n>> ELSE <<>>) \o PendingRows(n + 1)

\* C8: make_purchase_invoice maps a submitted receipt only; the invoice of a
\* receipt that is no return has one row for each receipt row with a positive
\* pending quantity (accepted, or received when rejected quantities are
\* billed, less invoiced on submitted invoices, less returned, at least 0),
\* that quantity being the row's qty, and the call fails with 'All items have
\* already been Invoiced/Returned' when there is no such row.
C8_PendingRows ==
    (Mapping /\ doc.is_return = 0) =>
        IF doc.docstatus # 1
        THEN ~target.mapped /\ err.msg = MsgCannotMap
        ELSE LET rows == PendingRows(1)
             IN  IF rows = <<>>
                 THEN ~target.mapped /\ err.msg = MsgAllInvoiced
                 ELSE /\ target.mapped /\ err = NoErr
                      /\ Len(target.items) = Len(rows)
                      /\ \A k \in DOMAIN rows :
                            /\ target.items[k].pr_detail = items[rows[k]].name
                            /\ target.items[k].qty = PendingQty(items[rows[k]])

----------------------------------------------------------------------------
(* The landed cost scenario: Landed Cost Vouchers in the database, and      *)
(* get_item_account_wise_additional_cost called for a receipt               *)

\* get_item_account_wise_additional_cost(purchase_document): None when no
\* submitted voucher lists the document, the dict otherwise
get_item_account_wise_additional_cost_call ==
    /\ \E purchase_document \in {ThisReceipt, OtherReceipt} :
        returned' =
            [ purchase_document |-> purchase_document,
              none |-> landed_cost_vouchers(lcv, purchase_document) = {},
              cost |-> get_item_account_wise_additional_cost(lcv, purchase_document) ]
    /\ phase' = "additional_cost_returned"
    /\ err' = NoErr
    /\ calls' = <<>>
    /\ UNCHANGED <<doc, items, taxes, dbVars, gl_entries, target>>

\* vouchers in the database
MaxVouchers == 2

VoucherItem ==
    [ item_code |-> "ITEM-A", purchase_receipt_item |-> "row-1",
      receipt_document |-> ThisReceipt, qty |-> 1, amount |-> 100,
      applicable_charges |-> 4 ]

VoucherItemB ==
    [VoucherItem EXCEPT !.item_code = "ITEM-B", !.purchase_receipt_item = "row-2",
                        !.qty = 3, !.amount = 50, !.applicable_charges = 6]

\* an item of the other receipt
VoucherItemOther ==
    [VoucherItem EXCEPT !.purchase_receipt_item = "row-9",
                        !.receipt_document = OtherReceipt,
                        !.qty = 2, !.amount = 50, !.applicable_charges = 5]

Freight == [expense_account |-> "Freight - C", amount |-> 9, base_amount |-> 18]

Customs == [expense_account |-> "Customs - C", amount |-> 6, base_amount |-> 6]

Voucher ==
    [ docstatus |-> 1, receipt_documents |-> {ThisReceipt},
      distribute_charges_based_on |-> "Amount",
      items |-> <<VoucherItem, VoucherItemB>>,
      taxes |-> <<Freight, Customs>> ]

\* a voucher by amount, by quantity and distributed manually; one shared with
\* the other receipt; one that lists the receipt and has no item of it; one
\* with two charges on one account; one whose items have no basis; one of the
\* other receipt alone; a draft and a cancelled one
Vouchers ==
    { Voucher,
      [Voucher EXCEPT !.distribute_charges_based_on = "Qty", !.taxes = <<Freight>>],
      [Voucher EXCEPT !.distribute_charges_based_on = "Distribute Manually",
                      !.taxes = <<Freight, [Freight EXCEPT !.amount = 2,
                                                           !.base_amount = 4]>>],
      [Voucher EXCEPT !.receipt_documents = {ThisReceipt, OtherReceipt},
                      !.items = <<VoucherItem, VoucherItemOther>>],
      [Voucher EXCEPT !.receipt_documents = {ThisReceipt, OtherReceipt},
                      !.items = <<VoucherItemOther>>, !.taxes = <<Freight>>],
      [Voucher EXCEPT !.distribute_charges_based_on = "Qty",
                      !.items = <<[VoucherItem EXCEPT !.qty = 0],
                                  [VoucherItemB EXCEPT !.qty = 0]>>],
      [Voucher EXCEPT !.receipt_documents = {OtherReceipt},
                      !.items = <<VoucherItemOther>>, !.taxes = <<Customs>>],
      [Voucher EXCEPT !.docstatus = 0],
      [Voucher EXCEPT !.docstatus = 2,
                      !.distribute_charges_based_on = "Qty"] }

InitCost ==
    /\ phase = "stored"
    /\ qi = [q \in {} |-> 0]
    /\ receipts = NoReceipts /\ others = <<>>
    /\ sle = NoSle
    /\ gl_entries = <<>> /\ target = NoTarget /\ returned = <<>>
    /\ err = NoErr
    /\ calls = <<>>
    /\ doc = [ReceiptDoc EXCEPT !.docstatus = 1]
    /\ items = Named(<<StockRow, [StockRow EXCEPT !.item_code = "ITEM-B"]>>)
    /\ taxes = <<>>
    /\ settings = Settings
    /\ pinv = <<>> /\ assets = <<>>
    /\ lcv \in SeqsUpTo(Vouchers, MaxVouchers)

NextCost == get_item_account_wise_additional_cost_call

SpecCost == InitCost /\ [][NextCost]_vars

----------------------------------------------------------------------------
(* Claims about the landed cost *)

\* the submitted vouchers on a receipt
VouchersOn(pd) ==
    {k \in DOMAIN lcv : lcv[k].docstatus = 1 /\ pd \in lcv[k].receipt_documents}

\* the basis of a voucher item, and the total basis of a voucher
Basis(k, i) ==
    IF lcv[k].distribute_charges_based_on = "Qty" THEN lcv[k].items[i].qty
    ELSE lcv[k].items[i].amount

RECURSIVE TotalBasis(_, _)
TotalBasis(k, n) == IF n = 0 THEN 0 ELSE TotalBasis(k, n - 1) + Basis(k, n)

\* what charge t of voucher k puts on its item i
Share(k, i, t, field) ==
    LET total == TotalBasis(k, Len(lcv[k].items))
    IN  IF total > 0
        THEN Frac(lcv[k].taxes[t][field] * Basis(k, i), total)
        ELSE FInt(lcv[k].items[i].applicable_charges)

\* the (voucher, item, charge) triples of a receipt
Charged(pd) ==
    { x \in UNION {{k} \X (DOMAIN lcv[k].items) \X (DOMAIN lcv[k].taxes)
                       : k \in VouchersOn(pd)} :
        lcv[x[1]].items[x[2]].receipt_document = pd }

ChargedKey(x) ==
    <<lcv[x[1]].items[x[2]].item_code, lcv[x[1]].items[x[2]].purchase_receipt_item>>

ChargedAccount(x) == lcv[x[1]].taxes[x[3]].expense_account

RECURSIVE ShareTotal(_, _)
ShareTotal(xs, field) ==
    IF xs = {} THEN FInt(0)
    ELSE LET x == CHOOSE y \in xs : TRUE
         IN  FAdd(Share(x[1], x[2], x[3], field), ShareTotal(xs \ {x}, field))

RECURSIVE ChargeTotal(_, _)
\* the sum of a field of a set of (voucher, charge) pairs
ChargeTotal(cs, field) ==
    IF cs = {} THEN 0
    ELSE LET c == CHOOSE y \in cs : TRUE
         IN  lcv[c[1]].taxes[c[2]][field] + ChargeTotal(cs \ {c}, field)

RECURSIVE ReturnedTotal(_, _, _)
\* the sum of a field of a set of (key, position) entries of a returned dict
ReturnedTotal(cost, es, field) ==
    IF es = {} THEN FInt(0)
    ELSE LET e == CHOOSE y \in es : TRUE
         IN  FAdd(cost[e[1]][e[2]][field], ReturnedTotal(cost, es \ {e}, field))

\* every submitted voucher on the receipt has all its items on the receipt
\* and a positive total basis
WhollyOn(pd) ==
    \A k \in VouchersOn(pd) :
        /\ TotalBasis(k, Len(lcv[k].items)) > 0
        /\ \A i \in DOMAIN lcv[k].items : lcv[k].items[i].receipt_document = pd

\* C11: get_item_account_wise_additional_cost returns nothing exactly when no
\* submitted voucher lists the receipt; otherwise it has one entry per
\* (item code, receipt row) of the receipt's voucher items and per expense
\* account charged to it, whose amount and base amount are the sums, over the
\* submitted vouchers, of charge x item basis / total basis of the voucher
\* (the item's applicable_charges when the total basis is not positive); and
\* when the vouchers are wholly on the receipt the entries of an account sum
\* to the charges of that account.
C11_AdditionalCost ==
    phase = "additional_cost_returned" =>
        LET pd == returned.purchase_document
            cost == returned.cost
            charged == Charged(pd)
        IN  /\ returned.none <=> VouchersOn(pd) = {}
            /\ DOMAIN cost = {ChargedKey(x) : x \in charged}
            /\ \A key \in DOMAIN cost :
                LET mine == {x \in charged : ChargedKey(x) = key}
                IN  /\ {cost[key][n].account : n \in DOMAIN cost[key]}
                          = {ChargedAccount(x) : x \in mine}
                    /\ \A n, m \in DOMAIN cost[key] :
                          cost[key][n].account = cost[key][m].account => n = m
                    /\ \A n \in DOMAIN cost[key] :
                        LET xs == {x \in mine : ChargedAccount(x) = cost[key][n].account}
                        IN  /\ cost[key][n].amount = ShareTotal(xs, "amount")
                            /\ cost[key][n].base_amount = ShareTotal(xs, "base_amount")
            /\ WhollyOn(pd) =>
                \A account \in {ChargedAccount(x) : x \in charged} :
                    LET entries == {e \in UNION {{<<key, n>> : n \in DOMAIN cost[key]}
                                                   : key \in DOMAIN cost} :
                                       cost[e[1]][e[2]].account = account}
                        cs == {c \in UNION {{<<k, t>> : t \in DOMAIN lcv[k].taxes}
                                              : k \in VouchersOn(pd)} :
                                  lcv[c[1]].taxes[c[2]].expense_account = account}
                    IN  /\ ReturnedTotal(cost, entries, "amount")
                              = FInt(ChargeTotal(cs, "amount"))
                        /\ ReturnedTotal(cost, entries, "base_amount")
                              = FInt(ChargeTotal(cs, "base_amount"))

\* two vouchers on the receipt, one by quantity, charge the same row and
\* account, and the call returned a share that is not a whole number
C11_Witness ==
    /\ phase = "additional_cost_returned"
    /\ ~returned.none
    /\ Cardinality(VouchersOn(returned.purchase_document)) = 2
    /\ \E key \in DOMAIN returned.cost : \E n \in DOMAIN returned.cost[key] :
          returned.cost[key][n].amount.d > 1

----------------------------------------------------------------------------
(* Claims about the valuation charges of the Taxes table *)

\* the rows of the Taxes table that are for valuation and have an amount
ValuationRows ==
    {i \in DOMAIN taxes :
        /\ taxes[i].category \in {"Valuation", "Valuation and Total"}
        /\ taxes[i].base_tax_amount_after_discount_amount # 0}

SignedAmount(i) ==
    IF taxes[i].add_deduct_tax = "Add"
    THEN taxes[i].base_tax_amount_after_discount_amount
    ELSE 0 - taxes[i].base_tax_amount_after_discount_amount

ItemTaxTotal == Total([i \in DOMAIN items |-> items[i].item_tax_amount], DOMAIN items)

SignedTotal == Total([i \in DOMAIN taxes |-> SignedAmount(i)], ValuationRows)

RECURSIVE CreditTotal(_)
\* the credits of the tax rows of the set S
CreditTotal(S) ==
    IF S = {} THEN FInt(0)
    ELSE LET i == CHOOSE j \in S : TRUE
         IN  FAdd(FSum([k \in DOMAIN EntriesFor(taxes[i].name) |->
                          EntriesFor(taxes[i].name)[k].credit]),
                  CreditTotal(S \ {i}))

BookedInInvoice ==
    \E i \in DOMAIN pinv :
        /\ pinv[i].docstatus = 1 /\ pinv[i].purchase_receipt = doc.name
        /\ pinv[i].booked_expenses_included_in_valuation

\* the valuation charges are to be booked: the items carry tax, a valuation
\* row has an amount, and every such row has its cost center
ChargesToBook ==
    /\ phase \in {"submitted", "submit_failed"}
    /\ ItemTaxTotal # 0 /\ ValuationRows # {}
    /\ \A i \in ValuationRows : taxes[i].cost_center # ""

\* the tax rows are credited row-wise, the last one with the remainder
CreditedRowWise ==
    /\ phase = "submitted"
    /\ \A i \in DOMAIN taxes \ ValuationRows : EntriesFor(taxes[i].name) = <<>>
    /\ \A i \in ValuationRows :
        LET es == EntriesFor(taxes[i].name)
            last == \A j \in ValuationRows : j <= i
        IN  /\ Len(es) = 1
            /\ es[1].debit = FInt(0)
            /\ es[1].cost_center = taxes[i].cost_center
            /\ es[1].account = IF BookedInInvoice
                               THEN settings.stock_received_but_not_billed
                               ELSE taxes[i].account_head
            /\ IF last
               THEN es[1].credit = FSub(FInt(ItemTaxTotal),
                                        CreditTotal(ValuationRows \ {i}))
               ELSE es[1].credit = Frac(ItemTaxTotal * SignedAmount(i), SignedTotal)
    /\ CreditTotal(ValuationRows) = FInt(ItemTaxTotal)

\* C12: when the items' total item_tax_amount is nonzero and a valuation tax
\* row has a nonzero amount, make_tax_gl_entries posts one credit per such
\* row, each but the last of total item tax x signed amount / sum of signed
\* amounts and the last of the remainder, to stock received but not billed
\* when a submitted invoice booked the expenses and to the row's account head
\* otherwise, the credits summing to the total item tax amount, for every
\* combination of Add and Deduct rows.
C12_ValuationCredits == ChargesToBook => CreditedRowWise

\* the same for the tables whose signed amounts do not sum to zero
C12_NonzeroSum == (ChargesToBook /\ SignedTotal # 0) => CreditedRowWise

----------------------------------------------------------------------------
(* Claims about the divisional loss *)

\* the stock rows make_item_gl_entries posts for: valued, with a quantity,
\* in a warehouse that has an account
PostedStockRows ==
    {i \in DOMAIN items :
        /\ items[i].item_code \in stock_items
        /\ items[i].valuation_rate # 0 /\ items[i].qty # 0
        /\ settings.warehouse_account[items[i].warehouse] # ""}

OutgoingAmount(d) ==
    IF doc.is_internal_transfer /\ d.valuation_rate # 0
    THEN Abs(sle[d.name].from_warehouse_difference)
    ELSE d.base_net_amount

DivisionalLoss(d) ==
    (OutgoingAmount(d) + d.landed_cost_voucher_amount + d.rm_supp_cost
        + d.item_tax_amount + d.rate_difference_with_purchase_invoice)
    - sle[d.name].stock_value_difference

LossAccount(d) ==
    IF doc.is_return = 1 \/ d.item_tax_amount # 0
    THEN settings.expenses_included_in_valuation
    ELSE IF settings.default_expense_account # ""
         THEN settings.default_expense_account
         ELSE settings.stock_received_but_not_billed

\* the exchange rate of the invoice the row was made from differs
ExchangeRateChanged(d) ==
    /\ d.purchase_invoice # ""
    /\ \E i \in DOMAIN pinv :
          /\ pinv[i].parent = d.purchase_invoice
          /\ pinv[i].conversion_rate \notin {0, doc.conversion_rate}
    /\ \E i \in DOMAIN pinv :
          pinv[i].name = d.purchase_invoice_item /\ pinv[i].net_rate = d.net_rate

\* the debits of a row that are not its divisional loss: the warehouse's,
\* the negative one of the source, the exchange gain or loss
OtherDebits(d) ==
    1 + (IF OutgoingAmount(d) # 0 THEN 1 ELSE 0)
      + (IF OutgoingAmount(d) # 0 /\ ExchangeRateChanged(d) THEN 1 ELSE 0)

Debits(d) ==
    {k \in DOMAIN EntriesFor(d.name) : EntriesFor(d.name)[k].debit # FInt(0)}

----------------------------------------------------------------------------
(* Claims about check_next_docstatus *)

\* C14: check_next_docstatus raises 'Purchase Invoice {0} is already
\* submitted', naming a submitted invoice, whenever a submitted Purchase
\* Invoice has an item referencing the receipt, and returns without error
\* otherwise.
C14_NextDocstatus ==
    phase = "next_docstatus_checked" =>
        IF InvoicesOfReceipt # {}
        THEN err.msg = MsgAlreadySubmitted /\ err.arg \in InvoicesOfReceipt
        ELSE err = NoErr

\* what holds of it: it raises some error exactly when there is such an invoice
C14_RaisesSomething ==
    phase = "next_docstatus_checked" => (err # NoErr <=> InvoicesOfReceipt # {})

----------------------------------------------------------------------------
(* Claims about get_pending_qty and get_returned_qty_map *)

\* a submitted receipt was mapped: get_pending_qty was called for its rows
PendingQtyCalled == Mapping /\ doc.docstatus = 1

\* what get_pending_qty starts from for the i-th row: the quantity not yet
\* invoiced, and the returned quantity of the map
PendingBefore(i) ==
    (IF settings.bill_for_rejected_quantity_in_purchase_invoice # 0
     THEN items[i].received_qty ELSE items[i].qty)
    - InvoicedQty(items[i].name)

ReturnedBefore(i) ==
    IF items[i].name \in DOMAIN returned.returned_qty_map
    THEN returned.returned_qty_map[items[i].name] ELSE 0

\* C15: get_pending_qty nets the returned quantity against the pending
\* quantity and conserves it: when the returned quantity is at least the
\* pending quantity, pending becomes 0 and the returned quantity carried
\* forward is reduced by the pending quantity; otherwise pending is reduced
\* by the returned quantity and the carried returned quantity is 0; the
\* reduction of pending equals that of the returned quantity.
C15_PendingConserved ==
    PendingQtyCalled =>
        \A i \in DOMAIN items :
            LET got == returned.pending_qty[i]
            IN  /\ IF ReturnedBefore(i) >= PendingBefore(i)
                   THEN /\ got.pending_qty = 0
                        /\ got.returned_qty = ReturnedBefore(i) - PendingBefore(i)
                   ELSE /\ got.pending_qty = PendingBefore(i) - ReturnedBefore(i)
                        /\ got.returned_qty = 0
                /\ PendingBefore(i) - got.pending_qty
                      = ReturnedBefore(i) - got.returned_qty

\* what holds of it: a returned quantity that covers the pending quantity is
\* carried whole, and without a returned quantity nothing is netted
C15_PendingOnly ==
    PendingQtyCalled =>
        \A i \in DOMAIN items :
            LET got == returned.pending_qty[i]
            IN  IF ReturnedBefore(i) # 0 /\ ReturnedBefore(i) >= PendingBefore(i)
                THEN got.pending_qty = 0 /\ got.returned_qty = ReturnedBefore(i)
                ELSE /\ got.pending_qty = PendingBefore(i) - ReturnedBefore(i)
                     /\ got.returned_qty = 0

\* the rows of this receipt that submitted returns against it name
ReturnedRowNames ==
    {AllRows[i].purchase_receipt_item : i \in
        {j \in DOMAIN AllRows :
            /\ AllRows[j].is_return = 1 /\ AllRows[j].docstatus = 1
            /\ AllRows[j].return_against = doc.name}}

\* C16: get_returned_qty_map maps each row of the receipt that submitted
\* returns name to the total of the absolute quantities of their rows, as
\* get_item_wise_returned_qty sums them.
C16_ReturnedQtyMap ==
    Mapping =>
        /\ DOMAIN returned.returned_qty_map = ReturnedRowNames
        /\ \A name \in ReturnedRowNames :
              /\ returned.returned_qty_map[name] = ReturnedQty(name)
              /\ returned.returned_qty_map[name]
                    = get_item_wise_returned_qty(AllRows, name)

\* what holds of it: the quantity of one of the return rows that name the row
C16_OneReturnRow ==
    Mapping =>
        /\ DOMAIN returned.returned_qty_map = ReturnedRowNames
        /\ \A name \in ReturnedRowNames :
              \E i \in DOMAIN AllRows :
                  /\ AllRows[i].is_return = 1 /\ AllRows[i].docstatus = 1
                  /\ AllRows[i].return_against = doc.name
                  /\ AllRows[i].purchase_receipt_item = name
                  /\ returned.returned_qty_map[name] = Abs(AllRows[i].qty)

----------------------------------------------------------------------------
(* Claims about the range of the billing percentage *)

PerBilledOf(pr) ==
    IF pr = doc.name THEN doc.per_billed ELSE receipts[pr].per_billed

\* C17: after update_billing_percentage on a receipt whose rows' billed
\* amounts are all non-negative, per_billed is at least 0 and at most 100,
\* whatever the amounts, the rates and the returned quantities.
C17_PerBilledRange ==
    phase = "percentage_updated" =>
        LET pr == calls[1].arg
            p == PerBilledOf(pr)
        IN  (\A i \in RowsOf(pr) : AllRows[i].billed_amt >= 0) =>
                /\ p.d > 0
                /\ 0 <= p.n
                /\ p.n <= 100 * p.d

\* the returns against a row exceed its amount: billed in part it makes the
\* receipt fully billed, not billed at all the total billable amount is 0
C17_Witness ==
    /\ phase = "percentage_updated" /\ calls[1].arg = doc.name
    /\ Len(items) = 1
    /\ ReturnedQty("row-1") * items[1].rate > items[1].amount
    /\ \/ items[1].billed_amt > 0 /\ doc.per_billed = FInt(100)
       \/ items[1].billed_amt = 0 /\ doc.per_billed = FInt(0)

----------------------------------------------------------------------------
(* The billing status scenarios: a draft receipt beside another receipt of  *)
(* the same purchase order item, with invoices made from the purchase       *)
(* order; the receipt is validated, submitted and cancelled                 *)

\* rows of the receipt in the billing status scenarios
MaxStatusRows == 2

\* a row of the purchase order item POI-1, a row made from the invoice PINV-1
\* of that purchase order item, a row made from the invoice alone, and a row
\* with neither
StatusRows ==
    { [BillingRow EXCEPT !.purchase_order = "PO-1",
                         !.purchase_order_item = "POI-1"],
      [BillingRow EXCEPT !.purchase_order = "PO-1",
                         !.purchase_order_item = "POI-1",
                         !.purchase_invoice = "PINV-1",
                         !.purchase_invoice_item = "PII-1"],
      [BillingRow EXCEPT !.purchase_invoice = "PINV-1",
                         !.purchase_invoice_item = "PII-1"],
      BillingRow }

\* the other receipt of the purchase order item: posted before this receipt
\* or after it, and after it with a billed amount from an invoice since
\* cancelled
StatusOthers ==
    { [posting |-> 1, billed_amt |-> 0], [posting |-> 2, billed_amt |-> 0],
      [posting |-> 2, billed_amt |-> 10] }

InitStatus ==
    /\ phase = "draft"
    /\ doc = ReceiptDoc
    /\ items \in {Named(rows)
                    : rows \in NonEmptySeqsUpTo(StatusRows, MaxStatusRows)}
    /\ taxes = <<>>
    /\ settings = Settings
    /\ qi = [q \in {} |-> 0]
    /\ \E e \in StatusOthers :
        /\ receipts = [r \in {OtherReceipt} |->
                          [StoredReceipt EXCEPT !.posting = e.posting]]
        /\ others = <<[OtherRow EXCEPT !.billed_amt = e.billed_amt]>>
    /\ pinv \in {NamedInvoices(a) : a \in {b \in OrderInvoices : Len(b) <= 1}}
    /\ (\E i \in DOMAIN items : items[i].purchase_invoice # "") => pinv # <<>>
    /\ sle = NoSle /\ assets = <<>> /\ lcv = <<>>
    /\ gl_entries = <<>> /\ target = NoTarget /\ returned = <<>>
    /\ err = NoErr
    /\ calls = <<>>

NextStatus == validate \/ on_submit \/ on_cancel

SpecStatus == InitStatus /\ [][NextStatus]_vars

----------------------------------------------------------------------------
(* Claims about update_billing_status *)

\* a row made from a purchase invoice
Linked(d) == d.purchase_invoice # "" /\ d.purchase_invoice_item # ""

\* the purchase order items of the rows not made from an invoice
Distributed ==
    {items[i].purchase_order_item : i \in
        {j \in DOMAIN items :
            ~Linked(items[j]) /\ items[j].purchase_order_item # ""}}

\* the rows of a purchase order item hold its first-in-first-out distribution
FifoHolds(po) ==
    \A i \in RowsOfOrderItem(po) :
        LET r == AllRows[i]
            before == {j \in RowsOfOrderItem(po) : Earlier(AllRows[j], r)}
            taken == Total([j \in DOMAIN AllRows |-> Room(AllRows[j])], before)
            left == IF OrderBilled(po) > taken THEN OrderBilled(po) - taken ELSE 0
        IN  r.billed_amt = DirectlyBilled(r.name)
                           + (IF Room(r) <= left THEN Room(r) ELSE left)

\* the receipts update_billing_percentage was called for, in the log's order
Recomputed ==
    SelectSeq(calls, LAMBDA c : c.fn = "update_billing_percentage")

\* the quantity returned against the row called name, in the table rows
ReturnedIn(rows, name) ==
    Total([i \in DOMAIN rows |-> Abs(rows[i].qty)],
          {i \in DOMAIN rows :
              /\ rows[i].is_return = 1 /\ rows[i].docstatus = 1
              /\ rows[i].purchase_receipt_item = name})

\* p, the per_billed of receipt pr, is 100 x billed / billable of its rows in
\* the table rows, to the sixth decimal
PercentageOf(rows, pr, p) ==
    LET mine == {i \in DOMAIN rows : rows[i].parent = pr}
        pending == [i \in DOMAIN rows |->
                       rows[i].amount - ReturnedIn(rows, rows[i].name) * rows[i].rate]
        billed == Total([i \in DOMAIN rows |-> rows[i].billed_amt], mine)
        billable == Total([i \in DOMAIN rows |->
                              IF rows[i].billed_amt > pending[i]
                              THEN rows[i].billed_amt ELSE pending[i]], mine)
        divisor == IF billable = 0 THEN 1 ELSE billable
        whole == (100 * billed) \div divisor
        rest == (100 * billed) % divisor
        all == IF PercentScale % p.d = 0 THEN p.n * (PercentScale \div p.d) ELSE -1
        millionths == all - whole * PercentScale
    IN  /\ all >= 0
        /\ Abs(millionths * divisor - rest * PercentScale) <= divisor \div 2

\* a step in which a hook ran update_billing_status
BillingStatusUpdated ==
    /\ phase' \in {"submitted", "cancelled"}
    /\ \E k \in DOMAIN calls' : calls'[k].fn = "update_billing_status"

\* the other receipts with a row whose billed amount the step changed
ChangedReceipts ==
    {others[i].parent : i \in
        {j \in DOMAIN others : others'[j].billed_amt # others[j].billed_amt}}

\* C18: update_billing_status sets billed_amt to the amount of every row made
\* from a purchase invoice, runs the first-in-first-out distribution for the
\* purchase order items of the other rows (which sets the billed amount of
\* every submitted receipt row of those purchase order items), and then calls
\* update_billing_percentage once for this receipt and once for every other
\* receipt with a row whose billed amount the distribution changed.
C18_Step ==
    BillingStatusUpdated =>
        /\ \A i \in DOMAIN items' :
              (Linked(items'[i])
                 /\ ~(doc'.docstatus = 1
                      /\ items'[i].purchase_order_item \in Distributed')) =>
                  items'[i].billed_amt = items'[i].amount
        /\ \A po \in Distributed' : FifoHolds(po)'
        /\ \A i \in DOMAIN items' :
              (~Linked(items'[i])
                 /\ ~(doc'.docstatus = 1
                      /\ items'[i].purchase_order_item \in Distributed')) =>
                  items'[i].billed_amt = items[i].billed_amt
        /\ \A j \in DOMAIN others' :
              others'[j].purchase_order_item \notin Distributed' =>
                  others'[j].billed_amt = others[j].billed_amt
        /\ {Recomputed'[k].arg : k \in DOMAIN Recomputed'}
              = {doc.name} \cup ChangedReceipts
        /\ \A k, m \in DOMAIN Recomputed' :
              Recomputed'[k].arg = Recomputed'[m].arg => k = m
        /\ \A k \in DOMAIN calls' :
              calls'[k].fn = "update_billing_percentage" =>
                  \E m \in 1..(k - 1) : calls'[m].fn = "update_billing_status"
        /\ \A rows \in {AllRows'} :
           \A pr \in {doc.name} \cup ChangedReceipts :
           \A p \in {PerBilledOf(pr)'} : PercentageOf(rows, pr, p)

----------------------------------------------------------------------------
(* Claims about the billing branch of on_submit *)

\* a step of on_submit: the hook ran to its end, or threw while the entries
\* were built
Submitting ==
    doc.docstatus = 0 /\ phase' \in {"submitted", "submit_failed"}

\* fn is in the next log, once
CalledOnceNext(fn) ==
    Cardinality({k \in DOMAIN calls' : calls'[k].fn = fn}) = 1

\* the first call of fn in the next log, 0 when there is none
PlaceNext(fn) == FirstIndex({k \in DOMAIN calls' : calls'[k].fn = fn})

\* update_stock_ledger and then make_gl_entries come after the call of fn
LedgerAndEntriesFollow(fn) ==
    /\ CalledOnceNext("update_stock_ledger")
    /\ CalledOnceNext("make_gl_entries")
    /\ PlaceNext(fn) < PlaceNext("update_stock_ledger")
    /\ PlaceNext("update_stock_ledger") < PlaceNext("make_gl_entries")

\* C19: on submit, a receipt with per_billed below 100 has its billing status
\* recomputed by update_billing_status; a receipt with per_billed of 100 or
\* more gets the status "Completed"
\* and update_billing_status does not run, the billed amounts and
\* percentages staying as they were; in both cases update_stock_ledger and
\* make_gl_entries follow.
C19_Step ==
    Submitting =>
        IF FLess(doc.per_billed, FInt(100))
        THEN /\ CalledOnceNext("update_billing_status")
             /\ \A k \in DOMAIN calls' : calls'[k].fn # "db_set_status_completed"
             /\ \E k \in DOMAIN calls' :
                    calls'[k] = CallFor("update_billing_percentage", doc.name)
             /\ LedgerAndEntriesFollow("update_billing_status")
        ELSE /\ CalledOnceNext("db_set_status_completed")
             /\ \A k \in DOMAIN calls' :
                    calls'[k].fn \notin {"update_billing_status",
                                         "update_billing_percentage"}
             /\ phase' = "submitted" => doc'.status = "Completed"
             /\ doc'.per_billed = doc.per_billed
             /\ \A i \in DOMAIN items : items'[i].billed_amt = items[i].billed_amt
             /\ others' = others /\ receipts' = receipts
             /\ LedgerAndEntriesFollow("db_set_status_completed")

C19_SubmitBilling == [][C19_Step]_vars

\* a fully billed receipt was submitted: it is "Completed", nothing was
\* recomputed, and the ledger and the entries were written
C19_Witness ==
    /\ phase = "submitted"
    /\ doc.status = "Completed"
    /\ ~FLess(doc.per_billed, FInt(100))
    /\ Called("db_set_status_completed")
    /\ ~Called("update_billing_status")
    /\ Called("make_gl_entries")
    /\ gl_entries # <<>>

----------------------------------------------------------------------------
(* The rate adjustment scenarios: a receipt of the billing status scenarios *)
(* is submitted and its billing percentage updated, with and without the    *)
(* adjustment of its incoming rate                                          *)

\* rows of the receipt in the rate adjustment scenarios
MaxAdjustRows == 1

InitAdjust == InitStatus /\ Len(items) <= MaxAdjustRows

NextAdjust == validate \/ on_submit \/ update_billing_percentage_call

SpecAdjust == InitAdjust /\ [][NextAdjust]_vars

----------------------------------------------------------------------------
(* Claims about adjust_incoming_rate_for_pr *)

\* the places in the log of the calls of fn made with the docstatus shown
PlacesOf(fn, docstatus) ==
    {k \in DOMAIN calls : calls[k] = CallFor(fn, docstatus)}

\* fn was called once, with the docstatus shown, and the function returns its
\* place in the log; 0 otherwise
OnlyPlace(fn, docstatus) ==
    IF Cardinality({k \in DOMAIN calls : calls[k].fn = fn}) = 1
       /\ PlacesOf(fn, docstatus) # {}
    THEN FirstIndex(PlacesOf(fn, docstatus)) ELSE 0

\* update_stock_ledger ran twice: with docstatus 2 and later with docstatus 1
LedgerReversedThenWritten ==
    /\ Cardinality({k \in DOMAIN calls : calls[k].fn = "update_stock_ledger"}) = 2
    /\ \E k \in PlacesOf("update_stock_ledger", "2") :
       \E m \in PlacesOf("update_stock_ledger", "1") :
          /\ k < OnlyPlace("make_gl_entries_on_cancel", "2")
          /\ OnlyPlace("make_gl_entries_on_cancel", "2") < m
          /\ m < OnlyPlace("make_gl_entries", "1")

\* C20: when adjust_incoming_rate_for_pr has returned, the stock ledger and
\* the GL entries were reversed with docstatus 2, after that the stock
\* ledger and the GL entries were written with docstatus 1 and the future
\* entries reposted, the document's docstatus is 1, and the ledger and the
\* GL entries are those of the receipt with its adjusted rates, once.
C20_AdjustIncomingRate ==
    phase = "rate_adjusted" =>
        /\ LedgerReversedThenWritten
        /\ OnlyPlace("make_gl_entries", "1")
              < OnlyPlace("repost_future_sle_and_gle", "1")
        /\ doc.docstatus = 1
        /\ sle \in SleWritten(items, doc)
        /\ gl_entries = get_gl_entries(items, taxes, doc, settings, sle, lcv,
                                       pinv, <<>>).entries

\* the incoming rate of a receipt billed half through its purchase order was
\* adjusted: the row carries the difference and the entries are re-posted
C20_Witness ==
    /\ phase = "rate_adjusted"
    /\ doc.docstatus = 1
    /\ \E i \in DOMAIN items :
          items[i].rate_difference_with_purchase_invoice # 0
    /\ gl_entries # <<>>
    /\ Called("make_gl_entries_on_cancel")

----------------------------------------------------------------------------
(* Claims about the cost center of the valuation taxes *)

\* the rows of the Taxes table for valuation, of an amount, without a cost
\* center
WithoutCostCenter ==
    {i \in DOMAIN taxes :
        /\ taxes[i].category \in {"Valuation", "Valuation and Total"}
        /\ taxes[i].base_tax_amount_after_discount_amount # 0
        /\ taxes[i].cost_center = ""}

\* the entries posted for the rows of the Taxes table
TaxEntries ==
    SelectSeq(gl_entries,
              LAMBDA e : \E i \in DOMAIN taxes : e.voucher_detail_no = taxes[i].name)

\* C21: when the entries of a receipt are built, a row of the Taxes table of
\* category "Valuation" or "Valuation and Total" with a nonzero
\* base_tax_amount_after_discount_amount and no cost center makes
\* make_tax_gl_entries throw "Cost Center is required in row ..." for the
\* first such row and no entry of a tax row is posted; without such a row
\* that error is not thrown.
C21_CostCenter ==
    phase \in {"submitted", "submit_failed"} =>
        IF WithoutCostCenter # {}
        THEN /\ phase = "submit_failed"
             /\ err = Err(MsgCostCenter, FirstIndex(WithoutCostCenter))
             /\ TaxEntries = <<>>
        ELSE err.msg # MsgCostCenter

\* the second valuation row has no cost center: the submit failed on it and
\* the first row, which has one, got no entry either
C21_Witness ==
    /\ phase = "submit_failed"
    /\ err = Err(MsgCostCenter, 2)
    /\ taxes[1].cost_center # "" /\ taxes[1].category = "Valuation"
    /\ \E i \in DOMAIN items : items[i].item_tax_amount # 0
    /\ gl_entries = <<>>

----------------------------------------------------------------------------
(* Claims about the provisional expense account *)

\* a step of validate that ran validate_provisional_expense_account
ProvisionalAccountValidated ==
    /\ phase = "draft"
    /\ \E k \in DOMAIN calls' :
          calls'[k].fn = "validate_provisional_expense_account"

\* C22: validate_provisional_expense_account, when the company has
\* enable_provisional_accounting_for_non_stock_items, gives the company's
\* default_provisional_account to every row without a provisional expense
\* account and leaves the account of the other rows, and every other field of
\* every row, as it was; when the company has not, no row changes.
C22_Step ==
    ProvisionalAccountValidated =>
        IF settings.enable_provisional_accounting_for_non_stock_items # 0
        THEN /\ DOMAIN items' = DOMAIN items
             /\ \A i \in DOMAIN items :
                   items'[i] =
                       [items[i] EXCEPT !.provisional_expense_account =
                           IF items[i].provisional_expense_account = ""
                           THEN settings.default_provisional_account
                           ELSE items[i].provisional_expense_account]
        ELSE items' = items

C22_ProvisionalAccount == [][C22_Step]_vars

\* a validated receipt of a company with provisional accounting: one row got
\* the default account, another kept its own
C22_Witness ==
    /\ phase = "validated"
    /\ settings.enable_provisional_accounting_for_non_stock_items = 1
    /\ \E i, j \in DOMAIN items :
          /\ items[i].provisional_expense_account
                = settings.default_provisional_account
          /\ items[j].provisional_expense_account = "Accrued Services - C"

====
